---------------------------- MODULE Spec2Model ----------------------------
(***************************************************************************)
(* Model of the decision core of the devagent-ui trading backend:          *)
(*   - the precondition guard and the schema contracts                     *)
(*     (agent/validation/guard.py, contracts.py, schemas.py),              *)
(*   - the two tool execution paths (agent/tool_router.py and              *)
(*     tool_executor.py) with the tool registry,                           *)
(*   - the swing-buy and options-buying planner pipelines                  *)
(*     (agent/planners/*.py) with their classification utilities,          *)
(*   - the market data daemon and its subscription manager                 *)
(*     (ws/dhan_daemon.py, ws/subscriptions.py).                           *)
(*                                                                         *)
(* Encodings used throughout:                                              *)
(*   - a JSON / Python value is a record [ty, s]: ty is its JSON type      *)
(*     ("string", "integer", "null", "object"), s its str() rendering;     *)
(*   - a payload (a dict) is a function from the keys it holds to values;  *)
(*   - an Optional is a sequence of length 0 (None) or 1 (the value); the  *)
(*     same encoding is used for the open dicts of PlannerState (an empty  *)
(*     dict is <<>>).                                                      *)
(***************************************************************************)
EXTENDS Integers, Sequences, FiniteSets, TLC

VARIABLES
    gTool,      \* guard run: the tool name (intent) of the last guarded call
    gPayload,   \* guard run: its payload
    gLevel,     \* guard run: validation level of the build ("full" | "minimal")
    gVerdict,   \* guard run: what guard_tool_call returned
    tVia,       \* tool run: entry point ("router": RouterToolClient.call ->
                \*   tool_router.execute_tool; "executor": tool_executor.execute_tool)
    tTool,      \* tool run: the tool name called
    tArgs,      \* tool run: the arguments
    tLevel,     \* tool run: validation level of the build
    tToken,     \* tool run: where an access token is found ("param" | "env" | "none")
    tBrokerOk,  \* tool run: whether the external service answers with success
    tOut,       \* tool run: the outcome of the call, NoOutcome before it
    pc,         \* planner run: where the coroutine stands ("start", "await_<tool>",
                \*   "done" after the return, "raised" after an exception left run())
    pPlanner,   \* planner run: "SWING_BUY" | "OPTIONS_BUYING"
    pQuery,     \* planner run: user_query
    pAccount,   \* planner run: account_context
    pState,     \* planner run: the PlannerState of the run
    pLocals,    \* planner run: the locals read after a later await
    pCalls,     \* planner run: the tools.call()s issued so far, in order
    pFindIn,    \* planner run: the find_instrument response consumed, <<>> before
    pDailyIn,   \* planner run: the daily series of the response consumed last
    pLastIn,    \* planner run: Optional [tool, res], the response consumed last after the daily one
    pResult,    \* planner run: Optional PlannerResult returned
    pHalt,      \* planner run: the stage whose return statement ended the run
    pExc,       \* planner run: the exception that left run(), "" when none
    fName,      \* function run: the pure function applied
    fIn,        \* function run: its argument
    fOut,       \* function run: Optional value it returned
    qRuns,      \* interleaved runs: per run id, the coroutine of one run_planner call
    qHeap,      \* interleaved runs: the PlannerState objects, by object id
    sSubs,      \* SubscriptionManager._subs: the Subscriptions held
    sVersion,   \* SubscriptionManager._version
    dEnabled,   \* daemon: _enabled
    dStop,      \* daemon: whether the Event _stop is set
    dThread,    \* daemon: _thread, as the statement its supervisor stands at
                \*   ("none": no thread yet, "dead": _run_supervisor returned)
    dV,         \* supervisor: its local v, <<>> outside an iteration
    dSubs,      \* supervisor: its local subs, <<>> outside an iteration
    dFeed,      \* daemon: _feed, Optional set of instruments the feed runs with
    dActive,    \* daemon: _active_version, Optional version
    dCaller,    \* daemon: "stopping" between the two statements of stop()
    dStops,     \* daemon: number of stop() calls made
    dLastError  \* daemon: _last_error, "" for None

guardVars == <<gTool, gPayload, gLevel, gVerdict>>

toolVars == <<tVia, tTool, tArgs, tLevel, tToken, tBrokerOk, tOut>>

planVars == <<pc, pPlanner, pQuery, pAccount, pState, pLocals, pCalls, pFindIn, pDailyIn,
              pLastIn, pResult, pHalt, pExc>>

fnVars == <<fName, fIn, fOut>>

pairVars == <<qRuns, qHeap>>

daemonVars == <<sSubs, sVersion, dEnabled, dStop, dThread, dV, dSubs, dFeed, dActive,
                dCaller, dStops, dLastError>>

vars == <<guardVars, toolVars, planVars, fnVars, pairVars, daemonVars>>

-----------------------------------------------------------------------------
(* Generic helpers *)

None == <<>>

Some(x) == <<x>>

RECURSIVE SeqFilter(_, _)
\* the elements of sequence s that are in set keep, in order
SeqFilter(s, keep) ==
    IF s = <<>> THEN <<>>
    ELSE IF Head(s) \in keep THEN <<Head(s)>> \o SeqFilter(Tail(s), keep)
         ELSE SeqFilter(Tail(s), keep)

SeqRange(s) == { s[i] : i \in 1..Len(s) }

RECURSIVE Flatten(_)
Flatten(ss) == IF ss = <<>> THEN <<>> ELSE Head(ss) \o Flatten(Tail(ss))

-----------------------------------------------------------------------------
(* Values *)

Str(x) == [ty |-> "string", s |-> x]

Int_(x) == [ty |-> "integer", s |-> x]

NoneV == [ty |-> "null", s |-> "None"]

Obj(x) == [ty |-> "object", s |-> x]

\* str(v).lower() on the strings of the value domain
Lower(s) == IF s = "DAILY" THEN "daily" ELSE s

\* the strings of the value domain that re.search(DATE_YYYY_MM_DD_PATTERN) accepts
DateShaped == {"2026-01-30"}

\* the securities maps of the value domain whose keys are exchange segments
\* and whose values are arrays of integers
WellFormedSecurities == {"{NSE_EQ:[1333]}"}

\* securities maps whose values are arrays of integers (keys unconstrained)
IntArraySecurities == {"{NSE_EQ:[1333]}", "{XXX:[1333]}"}

-----------------------------------------------------------------------------
(* schemas.py *)

EXCHANGE_SEGMENT_ENUM ==
    {"NSE_EQ", "BSE_EQ", "IDX_I", "NSE_FO", "BSE_FO", "MCX_COM", "NCDEX_COM",
     "NSE_FNO", "BSE_FNO", "MCX_COMM"}

INSTRUMENT_TYPE_ENUM == {"EQUITY", "INDEX", "FUTURES", "OPTIONS", "FUT", "OPT"}

INTRADAY_INTERVAL_ENUM == {"1", "5", "15", "25", "60"}

\* one entry of a schema's "properties": the declared type(s), the enum
\* ({} when none is declared), the pattern and the nested-object constraint
Prop(name, types, enum, pattern, nested) ==
    [name |-> name, types |-> types, enum |-> enum, pattern |-> pattern,
     nested |-> nested]

PSecurityId == Prop("security_id", {"string", "integer"}, {}, "", {})

PSegment == Prop("exchange_segment", {"string"}, EXCHANGE_SEGMENT_ENUM, "", {})

PInstrumentType == Prop("instrument_type", {"string"}, INSTRUMENT_TYPE_ENUM, "", {})

PFromDate == Prop("from_date", {"string"}, {}, "date", {})

PToDate == Prop("to_date", {"string"}, {}, "date", {})

MarketQuoteSchema ==
    [type |-> "object",
     properties |-> <<Prop("securities", {"object"}, {}, "", WellFormedSecurities)>>,
     required |-> <<"securities">>]

IntradayOHLCVSchema ==
    [type |-> "object",
     properties |-> <<PSecurityId, PSegment, PInstrumentType,
                      Prop("interval", {"string"}, INTRADAY_INTERVAL_ENUM, "", {}),
                      PFromDate, PToDate>>,
     required |-> <<"security_id", "exchange_segment", "instrument_type",
                    "interval", "from_date", "to_date">>]

DailyOHLCVSchema ==
    [type |-> "object",
     properties |-> <<PSecurityId, PSegment, PInstrumentType, PFromDate, PToDate>>,
     required |-> <<"security_id", "exchange_segment", "instrument_type",
                    "from_date", "to_date">>]

OptionChainSchema ==
    [type |-> "object",
     properties |-> <<Prop("underlying_security_id", {"string", "integer"}, {}, "", {}),
                      Prop("exchange_segment", {"string"},
                           {"IDX_I", "NSE_FO", "BSE_FO", "NSE_FNO", "BSE_FNO"}, "", {})>>,
     required |-> <<"underlying_security_id", "exchange_segment">>]

\* a composed contract holds the single key "allOf": it has no top-level
\* "required" and no top-level "properties"
OptionChainWithExpirySchema ==
    [allOf |-> <<OptionChainSchema,
                 [type |-> "object",
                  properties |-> <<Prop("expiry_date", {"string"}, {}, "date", {})>>,
                  required |-> <<"expiry_date">>]>>]

ExpiryListSchema ==
    [type |-> "object",
     properties |-> <<Prop("underlying_security_id", {"string", "integer"}, {}, "", {}),
                      Prop("exchange_segment", {"string"}, EXCHANGE_SEGMENT_ENUM, "", {})>>,
     required |-> <<"underlying_security_id", "exchange_segment">>]


-----------------------------------------------------------------------------
(* contracts.py *)

\* payload.get(key): None when the key is absent (or holds None)
PayloadGet(payload, key) ==
    IF key \in DOMAIN payload THEN payload[key] ELSE NoneV

resolve_historical_schema(payload) ==
    LET interval == PayloadGet(payload, "interval") IN
    IF interval = NoneV THEN IntradayOHLCVSchema
    ELSE IF Lower(interval.s) = "daily"
         THEN [allOf |-> <<DailyOHLCVSchema,
                           [type |-> "object",
                            properties |-> <<Prop("interval", {"string"}, {"daily"}, "", {})>>,
                            required |-> <<"interval">>]>>]
         ELSE IntradayOHLCVSchema

\* the tool names TOOL_INPUT_CONTRACTS has a key for
ContractTools ==
    {"get_quote", "get_market_quote", "get_intraday_ohlcv", "get_daily_ohlcv",
     "get_expiry_list", "get_option_chain", "get_historical_data"}

\* TOOL_INPUT_CONTRACTS[tool], a resolver entry applied to the payload
TOOL_INPUT_CONTRACTS(tool, payload) ==
    CASE tool \in {"get_quote", "get_market_quote"} -> MarketQuoteSchema
      [] tool = "get_intraday_ohlcv" -> IntradayOHLCVSchema
      [] tool = "get_daily_ohlcv" -> DailyOHLCVSchema
      [] tool = "get_expiry_list" -> ExpiryListSchema
      [] tool = "get_option_chain" -> OptionChainWithExpirySchema
      [] tool = "get_historical_data" -> resolve_historical_schema(payload)

\* Optional[dict]: None for a tool name without a contract
get_schema_for_tool(tool, payload) ==
    IF tool \notin ContractTools THEN None
    ELSE Some(TOOL_INPUT_CONTRACTS(tool, payload))

-----------------------------------------------------------------------------
(* guard.py *)

\* schema.get("required", []): the top-level key only
SchemaRequired(schema) ==
    IF "required" \in DOMAIN schema THEN schema.required ELSE <<>>

detect_missing_fields(schema, payload) ==
    SeqFilter(SchemaRequired(schema),
              { f \in SeqRange(SchemaRequired(schema)) : f \notin DOMAIN payload })

\* the keyword errors Draft7Validator reports for value v of property p
PropErrors(p, v) ==
    (IF v.ty \notin p.types THEN <<[path |-> p.name, keyword |-> "type"]>> ELSE <<>>)
    \o (IF p.enum # {} /\ ~(v.ty = "string" /\ v.s \in p.enum)
        THEN <<[path |-> p.name, keyword |-> "enum"]>> ELSE <<>>)
    \o (IF p.pattern = "date" /\ v.ty = "string" /\ v.s \notin DateShaped
        THEN <<[path |-> p.name, keyword |-> "pattern"]>> ELSE <<>>)
    \o (IF p.nested # {} /\ v.ty = "object" /\ v.s \notin p.nested
        THEN <<[path |-> p.name, keyword |-> "propertyNames"]>> ELSE <<>>)

RECURSIVE PropsErrors(_, _)
PropsErrors(props, payload) ==
    IF props = <<>> THEN <<>>
    ELSE (IF Head(props).name \in DOMAIN payload
          THEN PropErrors(Head(props), payload[Head(props).name]) ELSE <<>>)
         \o PropsErrors(Tail(props), payload)

RECURSIVE RequiredErrors(_, _)
RequiredErrors(required, payload) ==
    IF required = <<>> THEN <<>>
    ELSE (IF Head(required) \notin DOMAIN payload
          THEN <<[path |-> "", keyword |-> "required:" \o Head(required)]>> ELSE <<>>)
         \o RequiredErrors(Tail(required), payload)

\* Draft7Validator(schema).iter_errors(payload) for an object schema; the
\* errors without a path (required) sort first
ObjectErrors(schema, payload) ==
    RequiredErrors(schema.required, payload) \o PropsErrors(schema.properties, payload)

\* ... and for any contract: allOf reports the errors of each member
RECURSIVE AllOfErrors(_, _)
AllOfErrors(parts, payload) ==
    IF parts = <<>> THEN <<>>
    ELSE ObjectErrors(Head(parts), payload) \o AllOfErrors(Tail(parts), payload)

IterErrors(schema, payload) ==
    IF "allOf" \in DOMAIN schema THEN AllOfErrors(schema.allOf, payload)
    ELSE ObjectErrors(schema, payload)

\* (is_valid, errors); level "minimal" is the build without jsonschema
jsonschema_validate(schema, payload, level) ==
    IF level = "minimal"
    THEN LET missing == detect_missing_fields(schema, payload) IN
         IF missing # <<>>
         THEN [is_valid |-> FALSE, errors |-> <<[path |-> "", keyword |-> "missing"]>>]
         ELSE [is_valid |-> TRUE, errors |-> <<>>]
    ELSE LET errors == IterErrors(schema, payload) IN
         [is_valid |-> (Len(errors) = 0), errors |-> errors]

\* errors[:10]
MaxInvalidShown == 10

FirstN(s, n) == IF Len(s) <= n THEN s ELSE SubSeq(s, 1, n)

\* the verdict dict; the keys a verdict does not carry read as []
guard_tool_call(intent, schema, payload, level) ==
    LET missing == detect_missing_fields(schema, payload) IN
    IF missing # <<>>
    THEN [action |-> "ASK_USER", intent |-> intent, missing_fields |-> missing,
          invalid_fields |-> <<>>]
    ELSE LET v == jsonschema_validate(schema, payload, level) IN
         IF ~v.is_valid
         THEN [action |-> "ASK_USER_INVALID", intent |-> intent,
               missing_fields |-> <<>>,
               invalid_fields |-> FirstN(v.errors, MaxInvalidShown)]
         ELSE [action |-> "PROCEED", intent |-> intent, missing_fields |-> <<>>,
               invalid_fields |-> <<>>]

-----------------------------------------------------------------------------
(* Guard runs: any contract tool, any payload over the tool's keys, either   *)
(* validation level                                                          *)

Levels == {"full", "minimal"}

\* the payload keys tried for each tool
ToolKeys(tool) ==
    CASE tool \in {"get_quote", "get_market_quote"} -> {"securities"}
      [] tool \in {"get_intraday_ohlcv", "get_historical_data"} ->
            {"security_id", "exchange_segment", "instrument_type", "interval",
             "from_date", "to_date"}
      [] tool = "get_daily_ohlcv" ->
            {"security_id", "exchange_segment", "instrument_type", "from_date", "to_date"}
      [] tool = "get_expiry_list" -> {"underlying_security_id", "exchange_segment"}
      [] tool = "get_option_chain" ->
            {"underlying_security_id", "exchange_segment", "expiry_date"}
      [] OTHER -> {"query"}

\* the values tried for each key: well-formed ones, ill-formed ones and None
KeyValues(key) ==
    CASE key = "security_id" -> {Int_("1333"), NoneV}
      [] key = "underlying_security_id" -> {Str("13"), NoneV}
      [] key = "exchange_segment" -> {Str("NSE_EQ"), Str("IDX_I"), Str("XXX")}
      [] key = "instrument_type" -> {Str("EQUITY"), NoneV}
      [] key = "interval" -> {Str("5"), Str("daily"), Str("DAILY"), Str("bad"), NoneV}
      [] key = "from_date" -> {Str("2026-01-30"), Str("30-01-2026")}
      [] key = "to_date" -> {Str("2026-01-30"), NoneV}
      [] key = "expiry_date" -> {Str("2026-01-30"), Str("30-01-2026")}
      [] key = "securities" -> {Obj("{NSE_EQ:[1333]}"), Obj("{XXX:[1333]}"), NoneV}
      [] OTHER -> {Str("RELIANCE"), NoneV}

\* a key the payload does not hold
AbsentV == [ty |-> "absent", s |-> ""]

KeyChoices(tool, key) ==
    IF key \in ToolKeys(tool) THEN KeyValues(key) \cup {AbsentV} ELSE {AbsentV}

\* the dict holding the keys that were given a value
MkPayload(f) == [k \in { x \in DOMAIN f : f[x] # AbsentV } |-> f[k]]

Payloads(tool) ==
    { MkPayload([security_id |-> v1, underlying_security_id |-> v2,
                 exchange_segment |-> v3, instrument_type |-> v4, interval |-> v5,
                 from_date |-> v6, to_date |-> v7, expiry_date |-> v8,
                 securities |-> v9, query |-> v10]) :
        v1 \in KeyChoices(tool, "security_id"),
        v2 \in KeyChoices(tool, "underlying_security_id"),
        v3 \in KeyChoices(tool, "exchange_segment"),
        v4 \in KeyChoices(tool, "instrument_type"),
        v5 \in KeyChoices(tool, "interval"),
        v6 \in KeyChoices(tool, "from_date"),
        v7 \in KeyChoices(tool, "to_date"),
        v8 \in KeyChoices(tool, "expiry_date"),
        v9 \in KeyChoices(tool, "securities"),
        v10 \in KeyChoices(tool, "query") }

NoVerdict ==
    [action |-> "NONE", intent |-> "", missing_fields |-> <<>>, invalid_fields |-> <<>>]

\* the outcome of a tool call: the result dict handed back, whether tool.run
\* was entered, which external collaborator was reached ("none", "broker" for
\* trading_service, "search" for the instrument search) and the verdict of the
\* guard_tool_call made on the way ("NOT_CALLED" when none was made)
Outcome(result, ran, reached, guard) ==
    [result |-> result, ran |-> ran, reached |-> reached, guard |-> guard]

ToolResult(success, action, error, missing) ==
    [success |-> success, action |-> action, error |-> error, missing_fields |-> missing]

NoOutcome == Outcome(ToolResult(FALSE, "", "", <<>>), FALSE, "none", "NOT_STARTED")

ToolsIdle ==
    /\ tVia = ""
    /\ tTool = ""
    /\ tArgs = <<>>
    /\ tLevel = ""
    /\ tToken = ""
    /\ tBrokerOk = FALSE
    /\ tOut = NoOutcome

\* planners/models.py: PlannerState(), every dict empty
EmptyState ==
    [intent |-> <<>>, instrument |-> <<>>, htf |-> <<>>, ltf |-> <<>>,
     option_chain |-> <<>>, selected_option |-> <<>>, risk |-> <<>>, decision |-> <<>>]

NoLocals == [symbol |-> "", inst_type |-> "", allowed_direction |-> "", expiry_date |-> ""]

NoSeries == [n |-> 0]

PlanIdle ==
    /\ pc = "idle"
    /\ pPlanner = ""
    /\ pQuery = ""
    /\ pAccount = <<>>
    /\ pState = EmptyState
    /\ pLocals = NoLocals
    /\ pCalls = <<>>
    /\ pFindIn = <<>>
    /\ pDailyIn = NoSeries
    /\ pLastIn = <<>>
    /\ pResult = <<>>
    /\ pHalt = ""
    /\ pExc = ""

FnIdle ==
    /\ fName = ""
    /\ fIn = <<>>
    /\ fOut = <<>>

PairIdle ==
    /\ qRuns = <<>>
    /\ qHeap = <<>>

DaemonIdle ==
    /\ sSubs = {}
    /\ sVersion = 0
    /\ dEnabled = FALSE
    /\ dStop = FALSE
    /\ dThread = "none"
    /\ dV = <<>>
    /\ dSubs = <<>>
    /\ dFeed = <<>>
    /\ dActive = <<>>
    /\ dCaller = "idle"
    /\ dStops = 0
    /\ dLastError = ""

GuardIdle ==
    /\ gTool = ""
    /\ gPayload = <<>>
    /\ gLevel = ""
    /\ gVerdict = NoVerdict

\* the inputs of one guarded call
GuardInit ==
    /\ gTool \in ContractTools
    /\ gPayload \in Payloads(gTool)
    /\ gLevel \in Levels
    /\ gVerdict = NoVerdict
    /\ ToolsIdle
    /\ PlanIdle
    /\ FnIdle
    /\ PairIdle
    /\ DaemonIdle

\* the contract is looked up for the tool and the guard decides
GuardCall ==
    /\ gVerdict = NoVerdict
    /\ LET schema == get_schema_for_tool(gTool, gPayload)[1] IN
       gVerdict' = guard_tool_call(gTool, schema, gPayload, gLevel)
    /\ UNCHANGED <<gTool, gPayload, gLevel>>
    /\ UNCHANGED <<toolVars, planVars, fnVars, pairVars, daemonVars>>

GuardNext == GuardCall

SpecGuard == GuardInit /\ [][GuardNext]_vars

-----------------------------------------------------------------------------
(* Claims about the guard (under SpecGuard) *)

GuardDecided == gVerdict # NoVerdict

GuardContract == get_schema_for_tool(gTool, gPayload)[1]

IsComposed(schema) == "allOf" \in DOMAIN schema

\* every property name the contract requires: those of the base and of the
\* added constraint for a composed contract, in the contract's order
ContractRequired(schema) ==
    IF IsComposed(schema)
    THEN Flatten([i \in 1..Len(schema.allOf) |-> schema.allOf[i].required])
    ELSE schema.required

ContractProperties(schema) ==
    IF IsComposed(schema)
    THEN Flatten([i \in 1..Len(schema.allOf) |-> schema.allOf[i].properties])
    ELSE schema.properties

AbsentRequired(schema, payload) ==
    SeqFilter(ContractRequired(schema),
              { f \in SeqRange(ContractRequired(schema)) : f \notin DOMAIN payload })

\* every property the payload holds satisfies its declared type, enum and pattern
PresentValid(schema, payload) ==
    \A p \in SeqRange(ContractProperties(schema)) :
        p.name \in DOMAIN payload => PropErrors(p, payload[p.name]) = <<>>

\* C1: guard_tool_call returns PROCEED iff no property the contract requires is
\* missing from the payload and, at the full validation level, every property
\* present satisfies its type, enum and pattern (at the minimal level: iff no
\* required property is missing).
C1_ProceedIffComplete ==
    GuardDecided =>
        ((gVerdict.action = "PROCEED") <=>
            /\ AbsentRequired(GuardContract, gPayload) = <<>>
            /\ (gLevel = "full" => PresentValid(GuardContract, gPayload)))

\* C2: when a required property of the contract is absent the verdict is
\* ASK_USER and missing_fields lists exactly the absent required properties, in
\* the contract's order, whatever the validity of the properties present.
C2_MissingAsksUser ==
    (GuardDecided /\ AbsentRequired(GuardContract, gPayload) # <<>>) =>
        /\ gVerdict.action = "ASK_USER"
        /\ gVerdict.missing_fields = AbsentRequired(GuardContract, gPayload)

\* C3: for get_historical_data and a payload in which the resolver finds no
\* interval (key missing or value None) the contract is the one requiring
\* interval and the verdict is ASK_USER with interval among missing_fields.
C3_NoIntervalAsksUser ==
    (GuardDecided /\ gTool = "get_historical_data"
        /\ PayloadGet(gPayload, "interval") = NoneV) =>
        /\ GuardContract = IntradayOHLCVSchema
        /\ gVerdict.action = "ASK_USER"
        /\ "interval" \in SeqRange(gVerdict.missing_fields)

\* C4: for a composed contract, a payload lacking a property required by the
\* base or by the added constraint gets ASK_USER with that property among
\* missing_fields, at either validation level.
C4_ComposedMissingAsksUser ==
    (GuardDecided /\ IsComposed(GuardContract)) =>
        \A f \in SeqRange(AbsentRequired(GuardContract, gPayload)) :
            /\ gVerdict.action = "ASK_USER"
            /\ f \in SeqRange(gVerdict.missing_fields)

-----------------------------------------------------------------------------
(* tool_registry.py, tools/*.py, tools/base.py *)

\* TOOLS after initialize_registry()
TOOLS == {"find_instrument", "get_quote", "get_historical_data", "analyze_market"}

\* TOOL_ALIASES.get(name); "" when the name has no alias
TOOL_ALIASES(name) ==
    CASE name = "search_instruments" -> "find_instrument"
      [] name = "get_market_quote" -> "get_quote"
      [] OTHER -> ""

\* Optional[Tool]: the registered tool's name
get_tool_by_alias(name) ==
    IF name \in TOOLS THEN Some(name)
    ELSE IF TOOL_ALIASES(name) # "" /\ TOOL_ALIASES(name) \in TOOLS
         THEN Some(TOOL_ALIASES(name))
         ELSE None

get_tool(name) == get_tool_by_alias(name)

\* Tool.input_schema of the registered tools the runs call (each tool's own
\* schema, not the contract of contracts.py)
FindInstrumentInputSchema ==
    [type |-> "object",
     properties |-> <<Prop("query", {"string"}, {}, "", {}),
                      Prop("exchange_segment", {"string"},
                           {"NSE_EQ", "BSE_EQ", "NSE_FO", "BSE_FO", "IDX_I", "MCX_COM",
                            "NCDEX_COM"}, "", {}),
                      Prop("instrument_type", {"string"},
                           {"EQUITY", "INDEX", "FUTURES", "OPTIONS", "COMMODITY"}, "", {})>>,
     required |-> <<"query">>]

GetQuoteInputSchema ==
    [type |-> "object",
     properties |-> <<Prop("securities", {"object"}, {}, "", IntArraySecurities)>>,
     required |-> <<"securities">>]

GetHistoricalDataInputSchema ==
    [type |-> "object",
     properties |-> <<Prop("security_id", {"integer"}, {}, "", {}),
                      Prop("exchange_segment", {"string"},
                           {"NSE_EQ", "BSE_EQ", "NSE_FO", "BSE_FO", "MCX_COM", "NCDEX_COM",
                            "IDX_I"}, "", {}),
                      Prop("instrument_type", {"string"},
                           {"EQUITY", "FUTURES", "OPTIONS", "INDEX"}, "", {}),
                      Prop("from_date", {"string"}, {}, "", {}),
                      Prop("to_date", {"string"}, {}, "", {}),
                      Prop("interval", {"string"},
                           {"daily", "1", "5", "15", "25", "60", "intraday", "minute"},
                           "", {})>>,
     required |-> <<"security_id", "exchange_segment", "instrument_type",
                    "from_date", "to_date">>]

AnalyzeMarketInputSchema ==
    [type |-> "object",
     properties |-> <<Prop("security_id", {"integer"}, {}, "", {}),
                      Prop("exchange_segment", {"string"},
                           {"NSE_EQ", "BSE_EQ", "NSE_FO", "BSE_FO", "IDX_I"}, "", {})>>,
     required |-> <<"security_id", "exchange_segment">>]

ToolInputSchema(tool) ==
    CASE tool = "find_instrument" -> FindInstrumentInputSchema
      [] tool = "get_quote" -> GetQuoteInputSchema
      [] tool = "get_historical_data" -> GetHistoricalDataInputSchema
      [] tool = "analyze_market" -> AnalyzeMarketInputSchema

\* Tool.validate_input: is_valid
validate_input(tool, kwargs, level) ==
    IF level = "full"
    THEN IterErrors(ToolInputSchema(tool), kwargs) = <<>>
    ELSE \A f \in SeqRange(ToolInputSchema(tool).required) : f \in DOMAIN kwargs

\* tool.run(access_token, **kwargs) of a registered tool: validates again,
\* wants a token (find_instrument does not) and calls the external service
ToolRun(tool, kwargs, level, hasToken, brokerOk) ==
    IF ~validate_input(tool, kwargs, level)
    THEN Outcome(ToolResult(FALSE, "", "invalid input", <<>>), TRUE, "none", "NOT_CALLED")
    ELSE IF tool = "find_instrument"
    THEN Outcome(ToolResult(brokerOk, "", IF brokerOk THEN "" ELSE "Search failed", <<>>),
                 TRUE, "search", "NOT_CALLED")
    ELSE IF ~hasToken
    THEN Outcome(ToolResult(FALSE, "", "Access token required", <<>>),
                 TRUE, "none", "NOT_CALLED")
    ELSE Outcome(ToolResult(brokerOk, "", IF brokerOk THEN "" ELSE "Failed to fetch", <<>>),
                 TRUE, "broker", "NOT_CALLED")

-----------------------------------------------------------------------------
(* tool_router.py *)

legacy_mappings(name) ==
    CASE name = "search_instruments" -> "find_instrument"
      [] name = "get_market_quote" -> "get_quote"
      [] OTHER -> name

\* execute_tool(tool_name, tool_args, access_token) of the tool router
router_execute_tool(tool_name, tool_args, level, hasToken, brokerOk) ==
    LET tool == get_tool(legacy_mappings(tool_name)) IN
    IF tool = None
    THEN Outcome(ToolResult(FALSE, "", "Unknown tool", <<>>), FALSE, "none", "NOT_CALLED")
    ELSE IF ~validate_input(tool[1], tool_args, level)
    THEN Outcome(ToolResult(FALSE, "", "Input validation failed", <<>>),
                 FALSE, "none", "NOT_CALLED")
    ELSE ToolRun(tool[1], tool_args, level, hasToken, brokerOk)

-----------------------------------------------------------------------------
(* tool_executor.py *)

\* payload_for_guard: for get_option_chain the three canonical keys are always
\* set, to the argument's value or None
NormalizeForGuard(function_name, function_args) ==
    IF function_name = "get_option_chain"
    THEN [k \in DOMAIN function_args
                \cup {"underlying_security_id", "exchange_segment", "expiry_date"} |->
            IF k \in {"underlying_security_id", "exchange_segment", "expiry_date"}
            THEN PayloadGet(function_args, k) ELSE function_args[k]]
    ELSE function_args

\* the legacy dispatch on function_name, after the guard let the call through
LegacyDispatch(function_name, function_args, brokerOk, guard) ==
    IF function_name = "get_option_chain"
    THEN LET missing ==
                SeqFilter(<<"underlying_security_id", "exchange_segment", "expiry_date">>,
                          { k \in {"underlying_security_id", "exchange_segment",
                                   "expiry_date"} : PayloadGet(function_args, k) = NoneV })
         IN IF missing # <<>>
            THEN Outcome(ToolResult(FALSE, "ASK_USER", "I need fields", missing),
                         FALSE, "none", guard)
            ELSE Outcome(ToolResult(brokerOk, "",
                                    IF brokerOk THEN "" ELSE "Failed to fetch", <<>>),
                         TRUE, "broker", guard)
    ELSE Outcome(ToolResult(FALSE, "", "Unknown function", <<>>), FALSE, "none", guard)

\* execute_tool(function_name, function_args, access_token) of tool_executor
executor_execute_tool(function_name, function_args, level, token, brokerOk) ==
    IF get_tool(function_name) # None
    THEN router_execute_tool(function_name, function_args, level, token = "param", brokerOk)
    ELSE IF token = "none"
    THEN Outcome(ToolResult(FALSE, "", "Access token required", <<>>),
                 FALSE, "none", "NOT_CALLED")
    ELSE LET payload_for_guard == NormalizeForGuard(function_name, function_args)
             schema == get_schema_for_tool(function_name, payload_for_guard)
         IN IF schema = None
            THEN LegacyDispatch(function_name, function_args, brokerOk, "NOT_CALLED")
            ELSE LET check == guard_tool_call(function_name, schema[1],
                                              payload_for_guard, level)
                 IN IF check.action # "PROCEED"
                    THEN Outcome(ToolResult(FALSE, check.action, "blocked",
                                            check.missing_fields),
                                 FALSE, "none", check.action)
                    ELSE LegacyDispatch(function_name, function_args, brokerOk,
                                        check.action)

-----------------------------------------------------------------------------
(* Tool runs: one call through either entry point *)

\* the tool names the planner pipelines call, and the legacy names
PipelineTools ==
    {"find_instrument", "get_daily_ohlcv", "get_intraday_ohlcv", "get_expiry_list",
     "get_option_chain", "get_quote"}

CalledTools == PipelineTools \cup {"get_market_quote", "get_historical_data"}

ToolsInit ==
    /\ tVia \in {"router", "executor"}
    /\ tTool \in CalledTools
    /\ tArgs \in Payloads(tTool)
    /\ tLevel \in Levels
    /\ tToken \in {"param", "env", "none"}
    /\ tBrokerOk \in BOOLEAN
    /\ tOut = NoOutcome
    /\ GuardIdle
    /\ PlanIdle
    /\ FnIdle
    /\ PairIdle
    /\ DaemonIdle

\* planners/tool_client.py: RouterToolClient.call hands the call to the router
RouterToolClientCall ==
    /\ tVia = "router"
    /\ tOut = NoOutcome
    /\ tOut' = router_execute_tool(tTool, tArgs, tLevel, tToken = "param", tBrokerOk)
    /\ UNCHANGED <<tVia, tTool, tArgs, tLevel, tToken, tBrokerOk>>
    /\ UNCHANGED <<guardVars, planVars, fnVars, pairVars, daemonVars>>

ExecutorCall ==
    /\ tVia = "executor"
    /\ tOut = NoOutcome
    /\ tOut' = executor_execute_tool(tTool, tArgs, tLevel, tToken, tBrokerOk)
    /\ UNCHANGED <<tVia, tTool, tArgs, tLevel, tToken, tBrokerOk>>
    /\ UNCHANGED <<guardVars, planVars, fnVars, pairVars, daemonVars>>

ToolsNext == RouterToolClientCall \/ ExecutorCall

SpecTools == ToolsInit /\ [][ToolsNext]_vars

-----------------------------------------------------------------------------
(* Claims about the tool paths (under SpecTools) *)

ToolDone == tOut # NoOutcome

\* C5: every remote call a pipeline issues through RouterToolClient is checked
\* by guard_tool_call against the tool's registered contract before the tool
\* runs, and the tool reaches the external service only on the verdict PROCEED.
C5_RouterCallsGuarded ==
    (ToolDone /\ tVia = "router" /\ tTool \in PipelineTools) =>
        /\ tOut.ran => tOut.guard = "PROCEED"
        /\ tOut.reached # "none" => tOut.guard = "PROCEED"

\* C27: for every tool name that has a registered contract (get_quote,
\* get_market_quote, get_intraday_ohlcv, get_daily_ohlcv, get_expiry_list,
\* get_option_chain, get_historical_data), tool_executor.execute_tool calls
\* the broker service only after guard_tool_call returned PROCEED for the
\* payload; in particular a get_historical_data call without interval returns
\* success=false with action ASK_USER and is never executed with a defaulted
\* interval.
C27_ExecutorCallsGuarded ==
    (ToolDone /\ tVia = "executor" /\ tTool \in ContractTools) =>
        /\ tOut.reached = "broker" => tOut.guard = "PROCEED"
        /\ (tTool = "get_historical_data" /\ "interval" \notin DOMAIN tArgs) =>
              /\ ~tOut.result.success
              /\ tOut.result.action = "ASK_USER"
              /\ tOut.reached = "none"

-----------------------------------------------------------------------------
(* planners/utils.py                                                         *)
(*                                                                           *)
(* Prices, volumes and account figures are integers; a quotient the code     *)
(* computes in floating point is kept exact as a fraction [num, den] with    *)
(* den > 0 and compared by cross-multiplication.  A candle field is an       *)
(* Optional integer: None when float() of it raises (missing, non-numeric).  *)

Frac(n, d) == [num |-> n, den |-> d]

FracLT(a, b) == a.num * b.den < b.num * a.den

FracGT(a, b) == FracLT(b, a)

RECURSIVE SumSeq(_)
SumSeq(s) == IF s = <<>> THEN 0 ELSE Head(s) + SumSeq(Tail(s))

RECURSIVE MinSeq(_)
MinSeq(s) ==
    IF Len(s) = 1 THEN Head(s)
    ELSE LET m == MinSeq(Tail(s)) IN IF Head(s) <= m THEN Head(s) ELSE m

RECURSIVE MaxSeq(_)
MaxSeq(s) ==
    IF Len(s) = 1 THEN Head(s)
    ELSE LET m == MaxSeq(Tail(s)) IN IF Head(s) >= m THEN Head(s) ELSE m

\* s[-n:]
LastN(s, n) == IF Len(s) <= n THEN s ELSE SubSeq(s, Len(s) - n + 1, Len(s))

\* s[:-1]
AllButLast(s) == IF s = <<>> THEN <<>> ELSE SubSeq(s, 1, Len(s) - 1)

Lowers == "abcdefghijklmnopqrstuvwxyz"

Uppers == "ABCDEFGHIJKLMNOPQRSTUVWXYZ"

CharAt(s, i) == SubSeq(s, i, i)

UpperChar(c) ==
    IF \E i \in 1..Len(Lowers) : CharAt(Lowers, i) = c
    THEN CharAt(Uppers, CHOOSE i \in 1..Len(Lowers) : CharAt(Lowers, i) = c)
    ELSE c

RECURSIVE Upper(_)
\* str.upper()
Upper(s) == IF Len(s) = 0 THEN "" ELSE UpperChar(CharAt(s, 1)) \o Upper(SubSeq(s, 2, Len(s)))

\* k in s
Contains(s, k) ==
    \E i \in 1..(Len(s) - Len(k) + 1) : SubSeq(s, i, i + Len(k) - 1) = k

IsUpperLetter(c) == \E i \in 1..Len(Uppers) : CharAt(Uppers, i) = c

RECURSIVE Tokens(_, _)
\* the maximal runs of A-Z in s, in order; cur is the run being read
Tokens(s, cur) ==
    IF Len(s) = 0 THEN (IF cur = "" THEN <<>> ELSE <<cur>>)
    ELSE IF IsUpperLetter(CharAt(s, 1))
         THEN Tokens(SubSeq(s, 2, Len(s)), cur \o CharAt(s, 1))
         ELSE (IF cur = "" THEN <<>> ELSE <<cur>>) \o Tokens(SubSeq(s, 2, Len(s)), "")

StopWords ==
    {"CAN", "I", "BUY", "TODAY", "PLEASE", "PRICE", "QUOTE", "ANALYZE", "ANALYSIS",
     "SWING", "INTRADAY", "SCALP", "OPTION", "OPTIONS", "CE", "PE", "CALL", "PUT",
     "GOOD", "FOR", "IS", "THE", "A", "OF", "TO"}

MinSymbolLen == 3

\* str.strip() leaves nothing
IsBlank(s) == \A i \in 1..Len(s) : CharAt(s, i) = " "

\* Optional[str]
extract_symbol_guess(user_query) ==
    IF user_query = "" \/ IsBlank(user_query) THEN None
    ELSE LET upper == Upper(user_query)
             tokens == Tokens(upper, "")
             good == { i \in 1..Len(tokens) :
                         tokens[i] \notin StopWords /\ Len(tokens[i]) >= MinSymbolLen }
         IN IF Contains(upper, "BANKNIFTY") \/ Contains(upper, "BANK NIFTY")
            THEN Some("BANKNIFTY")
            ELSE IF Contains(upper, "NIFTY") THEN Some("NIFTY")
            ELSE IF Contains(upper, "SENSEX") THEN Some("SENSEX")
            ELSE IF good = {} THEN None
            ELSE Some(tokens[CHOOSE i \in good : \A j \in good : i <= j])

is_index_symbol(symbol) ==
    LET u == Upper(symbol) IN
    u \in {"NIFTY", "BANKNIFTY", "SENSEX"} \/ Contains(u, "NIFTY") \/ Contains(u, "SENSEX")

\* Optional fraction: the mean of the last `period` values
sma(values, period) ==
    IF period <= 0 \/ Len(values) < period THEN None
    ELSE Some(Frac(SumSeq(LastN(values, period)), period))

RECURSIVE ParsedField(_, _)
\* [float(c.get(field)) for c in candles], skipping the candles where it raises
ParsedField(candles, field) ==
    IF candles = <<>> THEN <<>>
    ELSE (IF Head(candles)[field] = None THEN <<>> ELSE <<Head(candles)[field][1]>>)
         \o ParsedField(Tail(candles), field)

\* float(c.get("volume") or 0.0)
VolumeOf(c) == IF c.volume = None THEN 0 ELSE c.volume[1]

RECURSIVE VwapSums(_)
\* (3 * num, den) of vwap over the candles whose high, low and close parse
VwapSums(candles) ==
    IF candles = <<>> THEN [num3 |-> 0, den |-> 0]
    ELSE LET c == Head(candles)
             rest == VwapSums(Tail(candles))
         IN IF c.high = None \/ c.low = None \/ c.close = None THEN rest
            ELSE [num3 |-> rest.num3 + (c.high[1] + c.low[1] + c.close[1]) * VolumeOf(c),
                  den |-> rest.den + VolumeOf(c)]

\* Optional fraction: sum(tp * vol) / sum(vol), tp = (h + l + c) / 3
vwap(candles) ==
    LET s == VwapSums(candles) IN
    IF s.den <= 0 THEN None ELSE Some(Frac(s.num3, 3 * s.den))

recent_swing_low(candles, lookback) ==
    LET lows == ParsedField(LastN(candles, lookback), "low") IN
    IF lows = <<>> THEN None ELSE Some(MinSeq(lows))

recent_swing_high(candles, lookback) ==
    LET highs == ParsedField(LastN(candles, lookback), "high") IN
    IF highs = <<>> THEN None ELSE Some(MaxSeq(highs))

MinDailyCloses == 60

SmaFast == 20

SmaSlow == 50

\* the comparisons made non-strict: equal averages count as a trend
classify_htf_bias_NonStrict(daily_candles) ==
    LET closes == ParsedField(daily_candles, "close") IN
    IF Len(closes) < MinDailyCloses THEN <<"RANGE", "NO_TRADE">>
    ELSE LET s20 == sma(closes, SmaFast)
             s50 == sma(closes, SmaSlow)
             last == Frac(closes[Len(closes)], 1)
         IN IF s20 = None \/ s50 = None THEN <<"RANGE", "NO_TRADE">>
            ELSE IF ~FracLT(s20[1], s50[1]) /\ ~FracLT(last, s20[1])
                 THEN <<"BULLISH", "CE_ONLY">>
            ELSE IF ~FracGT(s20[1], s50[1]) /\ ~FracGT(last, s20[1])
                 THEN <<"BEARISH", "PE_ONLY">>
            ELSE <<"RANGE", "NO_TRADE">>

\* <<htf_bias, allowed_direction>>
classify_htf_bias(daily_candles) ==
    LET closes == ParsedField(daily_candles, "close") IN
    IF Len(closes) < MinDailyCloses THEN <<"RANGE", "NO_TRADE">>
    ELSE LET s20 == sma(closes, SmaFast)
             s50 == sma(closes, SmaSlow)
             last == Frac(closes[Len(closes)], 1)
         IN IF s20 = None \/ s50 = None THEN <<"RANGE", "NO_TRADE">>
            ELSE IF FracGT(s20[1], s50[1]) /\ FracGT(last, s20[1])
                 THEN <<"BULLISH", "CE_ONLY">>
            ELSE IF FracLT(s20[1], s50[1]) /\ FracLT(last, s20[1])
                 THEN <<"BEARISH", "PE_ONLY">>
            ELSE <<"RANGE", "NO_TRADE">>

MinIntradayCandles == 30

SwingLookback == 20

\* a new high required: the swing high must exceed the previous one
classify_ltf_structure_NewHigh(intraday_candles) ==
    IF Len(intraday_candles) < MinIntradayCandles THEN <<"NEUTRAL", FALSE>>
    ELSE IF intraday_candles[Len(intraday_candles)].close = None THEN <<"NEUTRAL", FALSE>>
    ELSE LET vw == vwap(intraday_candles)
             last_close == Frac(intraday_candles[Len(intraday_candles)].close[1], 1)
             swing_h == recent_swing_high(intraday_candles, SwingLookback)
             prev_swing_h == IF Len(intraday_candles) > 1
                             THEN recent_swing_high(AllButLast(intraday_candles),
                                                    SwingLookback)
                             ELSE None
             bullish == /\ vw # None
                        /\ FracGT(last_close, vw[1])
                        /\ swing_h # None
                        /\ prev_swing_h # None
                        /\ swing_h[1] > prev_swing_h[1]
             bearish == vw # None /\ FracLT(last_close, vw[1])
         IN IF bullish /\ ~bearish THEN <<"BULLISH", TRUE>>
            ELSE IF bearish /\ ~bullish THEN <<"BEARISH", TRUE>>
            ELSE <<"NEUTRAL", FALSE>>

\* <<ltf_structure, entry_permission>>
classify_ltf_structure(intraday_candles) ==
    IF Len(intraday_candles) < MinIntradayCandles THEN <<"NEUTRAL", FALSE>>
    ELSE IF intraday_candles[Len(intraday_candles)].close = None THEN <<"NEUTRAL", FALSE>>
    ELSE LET vw == vwap(intraday_candles)
             last_close == Frac(intraday_candles[Len(intraday_candles)].close[1], 1)
             swing_h == recent_swing_high(intraday_candles, SwingLookback)
             prev_swing_h == IF Len(intraday_candles) > 1
                             THEN recent_swing_high(AllButLast(intraday_candles),
                                                    SwingLookback)
                             ELSE None
             bullish == /\ vw # None
                        /\ FracGT(last_close, vw[1])
                        /\ swing_h # None
                        /\ prev_swing_h # None
                        /\ swing_h[1] >= prev_swing_h[1]
             bearish == vw # None /\ FracLT(last_close, vw[1])
         IN IF bullish /\ ~bearish THEN <<"BULLISH", TRUE>>
            ELSE IF bearish /\ ~bullish THEN <<"BEARISH", TRUE>>
            ELSE <<"NEUTRAL", FALSE>>

\* float("nan"): every comparison with it is false and arithmetic on it gives it
NaN == [num |-> 0, den |-> 0]

IsNaN(x) == x.den = 0

\* cap <= 0 on the float of a figure; False for NaN
NotPositive(figure) == figure.kind = "num" /\ figure.v <= 0

\* An account figure is [kind, v]: kind "none" (missing or None), "text" (float()
\* raises), "num" (float() gives v) or "nan" (float() gives NaN, as for the
\* text "nan" or a NaN number).
\* The result is [amount, message]: amount an Optional fraction
\* cap * (pct / 100), message an Optional string.
risk_budget_from_account(account_context) ==
    LET capital == account_context.capital
        max_risk_pct == account_context.max_risk_per_trade
    IN IF capital.kind = "none"
       THEN [amount |-> None, message |-> Some("I need account_context.capital")]
       ELSE IF max_risk_pct.kind = "none"
       THEN [amount |-> None, message |-> Some("I need account_context.max_risk_per_trade")]
       ELSE IF capital.kind = "text" \/ max_risk_pct.kind = "text"
       THEN [amount |-> None, message |-> Some("must be numbers")]
       ELSE IF NotPositive(capital) \/ NotPositive(max_risk_pct)
       THEN [amount |-> None, message |-> Some("must be > 0")]
       ELSE IF capital.kind = "nan" \/ max_risk_pct.kind = "nan"
       THEN [amount |-> Some(NaN), message |-> None]
       ELSE [amount |-> Some(Frac(capital.v * max_risk_pct.v, 100)), message |-> None]

-----------------------------------------------------------------------------
(* planners/models.py and the steps of a pipeline                            *)

\* PlannerResult(action, message, state, missing_fields, error, decision);
\* error and decision are Optionals
PlannerResult(action, message, state, missing_fields, error, decision) ==
    [action |-> action, message |-> message, state |-> state,
     missing_fields |-> missing_fields, error |-> error, decision |-> decision]

\* What the code between two awaits does: it returns a result (at a stage),
\* issues the next tools.call, or lets an exception out of run().
Halt(stage, result) == [kind |-> "halt", stage |-> stage, result |-> result]

Call(tool, args, state, locals) ==
    [kind |-> "call", tool |-> tool, args |-> args, state |-> state, locals |-> locals]

Raise(exc, state) == [kind |-> "raise", exc |-> exc, state |-> state]

\* date.today() and the dates the pipelines derive from it
Today == "2026-11-02"

DaysAgo180 == "2026-05-06"

DaysAgo60 == "2026-09-03"

\* str(x) of an Optional value
PyStr(opt) == IF opt = None THEN "None" ELSE opt[1].s

\* d.get(key, default) on a response's Optional string
GetOr(opt, default) == IF opt = None THEN default ELSE opt[1]

Digits == "0123456789"

\* int(s) does not raise
IsIntString(s) ==
    /\ Len(s) > 0
    /\ \A i \in 1..Len(s) : \E d \in 1..Len(Digits) : CharAt(s, i) = CharAt(Digits, d)

\* inst_res.get("instruments") or inst_res.get("data", {}).get("instruments"),
\* then the isinstance/emptiness test: None when there is no first instrument
ResponseInstruments(inst_res) ==
    IF inst_res.shape = "none" \/ inst_res.instruments = <<>> THEN None
    ELSE Some(inst_res.instruments)

\* no "instruments" and "data" held with a value that has no .get (None):
\* inst_res.get("data", {}).get("instruments") raises
InstrumentsLookupRaises(inst_res) == inst_res.shape = "data_null"

\* the failure branch with the response's error copied onto the ASK_USER result
FetchFailed_ErrorOnAsk(stage, res, state, what) ==
    IF res.action \in {"ASK_USER", "ASK_USER_INVALID"}
    THEN Halt(stage, PlannerResult("ASK_USER",
                                   GetOr(res.error, "Missing information to fetch " \o what),
                                   state, <<>>, res.error, None))
    ELSE Halt(stage, PlannerResult("ERROR", "Failed to fetch " \o what, state, <<>>,
                                   res.error, None))

\* the failure branch shared by the daily, intraday and option-chain fetches
FetchFailed(stage, res, state, what) ==
    IF res.action \in {"ASK_USER", "ASK_USER_INVALID"}
    THEN Halt(stage, PlannerResult("ASK_USER",
                                   GetOr(res.error, "Missing information to fetch " \o what),
                                   state, <<>>, None, None))
    ELSE Halt(stage, PlannerResult("ERROR", "Failed to fetch " \o what, state, <<>>,
                                   res.error, None))

\* daily.get("data") if isinstance(daily.get("data"), list) else []
CandlesOf(res) == IF res.data = None THEN <<>> ELSE res.data[1]

-----------------------------------------------------------------------------
(* planners/swing_buy.py *)

SwingStart(user_query) ==
    LET symbol == extract_symbol_guess(user_query) IN
    IF symbol = None
    THEN Halt("intent", PlannerResult("ASK_USER", "Which stock symbol", EmptyState,
                                      <<"symbol">>, None, None))
    ELSE Call("find_instrument",
              [query |-> Str(symbol[1]), instrument_type |-> Str("EQUITY"),
               limit |-> Int_("1")],
              [EmptyState EXCEPT !.intent =
                    Some([symbol |-> symbol[1], trade_type |-> "SWING_BUY"])],
              [NoLocals EXCEPT !.symbol = symbol[1], !.inst_type = "EQUITY"])

SwingAfterFind(state, locals, inst_res) ==
    IF ~inst_res.success
    THEN Halt("instrument", PlannerResult("NO_TRADE", "Could not resolve instrument (error)",
                                          state, <<>>, None, None))
    ELSE IF InstrumentsLookupRaises(inst_res) THEN Raise("AttributeError", state)
    ELSE IF ResponseInstruments(inst_res) = None
    THEN Halt("instrument", PlannerResult("NO_TRADE", "Could not resolve instrument",
                                          state, <<>>, None, None))
    ELSE LET inst == ResponseInstruments(inst_res)[1][1]
             instrument == [security_id |-> PyStr(inst.security_id),
                            exchange_segment |-> inst.exchange_segment,
                            instrument_type |-> "EQUITY"]
             st == [state EXCEPT !.instrument = Some(instrument)]
         IN IF instrument.security_id = "" \/ instrument.exchange_segment \in {None, Some("")}
            THEN Halt("instrument",
                      PlannerResult("NO_TRADE", "Instrument resolution returned incomplete data",
                                    st, <<>>, None, None))
            ELSE Call("get_daily_ohlcv",
                      [security_id |-> Str(instrument.security_id),
                       exchange_segment |-> Str(instrument.exchange_segment[1]),
                       instrument_type |-> Str("EQUITY"),
                       from_date |-> Str(DaysAgo180), to_date |-> Str(Today)],
                      st, locals)

\* the trend filter without the test of the last close
SwingUptrend_AveragesOnly(s20, s50, last) == FracGT(s20, s50)

\* uptrend = s20 > s50 and last > s20
SwingUptrend(s20, s50, last) == FracGT(s20, s50) /\ FracGT(last, s20)

\* last_close <= s20 * 1.03
PullbackOk(last, s20) == last.num * s20.den * 100 <= s20.num * 103 * last.den

RECURSIVE VolumeSum(_)
VolumeSum(candles) ==
    IF candles = <<>> THEN 0 ELSE VolumeOf(Head(candles)) + VolumeSum(Tail(candles))

RECURSIVE PairedLows(_)
\* lows of the loop that appends float(high) and then float(low): a candle
\* contributes its low only when both parse
PairedLows(candles) ==
    IF candles = <<>> THEN <<>>
    ELSE (IF Head(candles).high # None /\ Head(candles).low # None
          THEN <<Head(candles).low[1]>> ELSE <<>>) \o PairedLows(Tail(candles))

RecentWindow == 20

RMultiple == 2

MinRewardRisk == 2

StopNotBelowEntry(stop, entry) == stop >= entry

\* (target - entry) / risk_per_share if risk_per_share > 0 else 0.0
RewardRisk(entry, target, risk_per_share) ==
    IF risk_per_share > 0 THEN Frac(target - entry, risk_per_share) ELSE Frac(0, 1)

RewardRiskTooLow(rr) == FracLT(rr, Frac(MinRewardRisk, 1))

\* the quantity rounded up to the next whole share
Quantity_RoundUp(risk_budget, risk_per_share) ==
    IF risk_per_share > 0
    THEN (risk_budget.num + risk_budget.den * risk_per_share - 1)
            \div (risk_budget.den * risk_per_share)
    ELSE 0

\* int(risk_budget // risk_per_share) if risk_per_share > 0 else 0; int()
\* raises ValueError on a NaN budget
Quantity(risk_budget, risk_per_share) ==
    IF risk_per_share > 0
    THEN risk_budget.num \div (risk_budget.den * risk_per_share)
    ELSE 0

\* the sizing check with its boundary off by one: a quantity of 0 passes
QuantityTooSmall_OffByOne(qty) == qty < 0

QuantityTooSmall(qty) == qty <= 0

\* S6/S7, from the risk budget to the decision
SwingSize(state, locals, account_context, daily_candles, last) ==
    LET risk == risk_budget_from_account(account_context)
        recent == LastN(daily_candles, RecentWindow)
        highs == ParsedField(recent, "high")
        lows == PairedLows(recent)
        NoTrade(msg) == Halt("risk", PlannerResult("NO_TRADE", msg, state, <<>>, None, None))
    IN IF risk.message # None
       THEN Halt("risk", PlannerResult("ASK_USER", risk.message[1], state,
                                       <<"account_context.capital",
                                         "account_context.max_risk_per_trade">>,
                                       None, None))
       ELSE IF highs = <<>> \/ lows = <<>>
       THEN NoTrade("Could not derive key levels")
       ELSE LET entry == last
                stop == MinSeq(lows)
                risk_per_share == entry - stop
                target == entry + RMultiple * risk_per_share
                rr == RewardRisk(entry, target, risk_per_share)
                qty == Quantity(risk.amount[1], risk_per_share)
                decision == [trade_type |-> "SWING_BUY", symbol |-> locals.symbol,
                             entry |-> entry, stop_loss |-> stop, target |-> target,
                             quantity |-> qty, trade_permission |-> "YES"]
                st == [state EXCEPT
                         !.risk = Some([quantity |-> qty, risk_budget |-> risk.amount[1],
                                        risk_per_share |-> risk_per_share,
                                        rr_ratio |-> rr]),
                         !.decision = Some(decision)]
            IN IF StopNotBelowEntry(stop, entry) THEN NoTrade("stop-loss is not below entry")
               ELSE IF RewardRiskTooLow(rr) THEN NoTrade("RR < 2.0")
               ELSE IF IsNaN(risk.amount[1]) THEN Raise("ValueError", state)
               ELSE IF QuantityTooSmall(qty) THEN NoTrade("Risk budget is too small")
               ELSE Halt("decision", PlannerResult("DECISION", "Swing buy plan generated",
                                                   st, <<>>, None, Some(decision)))

\* S3..S5 with the setup recorded before the trend filter returns
SwingAnalyse_SetupFirst(state, locals, account_context, daily_candles) ==
    LET closes == ParsedField(daily_candles, "close") IN
    IF Len(closes) < MinDailyCloses
    THEN Halt("htf", PlannerResult("NO_TRADE", "Not enough daily OHLCV data", state, <<>>,
                                   None, None))
    ELSE LET s20 == sma(closes, SmaFast)
             s50 == sma(closes, SmaSlow)
             last == closes[Len(closes)]
         IN IF s20 = None \/ s50 = None
            THEN Halt("htf", PlannerResult("NO_TRADE", "Could not compute trend filters",
                                           state, <<>>, None, None))
            ELSE LET uptrend == SwingUptrend(s20[1], s50[1], Frac(last, 1))
                     st3 == [state EXCEPT !.htf =
                                Some([trend |-> IF uptrend THEN "UPTREND" ELSE "NOT_UPTREND",
                                      swing_allowed |-> uptrend])]
                     volume_ok == VolumeSum(LastN(daily_candles, RecentWindow)) > 0
                     st5 == [st3 EXCEPT !.ltf =
                                Some([setup_type |-> IF PullbackOk(Frac(last, 1), s20[1])
                                                     THEN "PULLBACK_BUY" ELSE "BREAKOUT_BUY",
                                      volume_confirmation |-> volume_ok])]
                 IN IF ~uptrend
                    THEN Halt("htf", PlannerResult("NO_TRADE", "HTF trend filter failed", st5,
                                                   <<>>, None, None))
                    ELSE IF ~volume_ok
                    THEN Halt("ltf", PlannerResult("NO_TRADE", "Volume confirmation failed",
                                                   st5, <<>>, None, None))
                    ELSE SwingSize(st5, locals, account_context, daily_candles, last)

\* S3..S5 on a successful daily response, then S6/S7
SwingAnalyse(state, locals, account_context, daily_candles) ==
    LET closes == ParsedField(daily_candles, "close") IN
    IF Len(closes) < MinDailyCloses
    THEN Halt("htf", PlannerResult("NO_TRADE", "Not enough daily OHLCV data", state, <<>>,
                                   None, None))
    ELSE LET s20 == sma(closes, SmaFast)
             s50 == sma(closes, SmaSlow)
             last == closes[Len(closes)]
         IN IF s20 = None \/ s50 = None
            THEN Halt("htf", PlannerResult("NO_TRADE", "Could not compute trend filters",
                                           state, <<>>, None, None))
            ELSE LET uptrend == SwingUptrend(s20[1], s50[1], Frac(last, 1))
                     st3 == [state EXCEPT !.htf =
                                Some([trend |-> IF uptrend THEN "UPTREND" ELSE "NOT_UPTREND",
                                      swing_allowed |-> uptrend])]
                     volume_ok == VolumeSum(LastN(daily_candles, RecentWindow)) > 0
                     st5 == [st3 EXCEPT !.ltf =
                                Some([setup_type |-> IF PullbackOk(Frac(last, 1), s20[1])
                                                     THEN "PULLBACK_BUY" ELSE "BREAKOUT_BUY",
                                      volume_confirmation |-> volume_ok])]
                 IN IF ~uptrend
                    THEN Halt("htf", PlannerResult("NO_TRADE", "HTF trend filter failed", st3,
                                                   <<>>, None, None))
                    ELSE IF ~volume_ok
                    THEN Halt("ltf", PlannerResult("NO_TRADE", "Volume confirmation failed",
                                                   st5, <<>>, None, None))
                    ELSE SwingSize(st5, locals, account_context, daily_candles, last)

\* the daily stage issuing a failed fetch once more
SwingAfterDaily_Retry(state, locals, account_context, daily) ==
    IF ~daily.success
    THEN Call("get_daily_ohlcv",
              [security_id |-> Str(state.instrument[1].security_id),
               exchange_segment |-> Str(state.instrument[1].exchange_segment[1]),
               instrument_type |-> Str("EQUITY"),
               from_date |-> Str(DaysAgo180), to_date |-> Str(Today)],
              state, locals)
    ELSE SwingAnalyse(state, locals, account_context, CandlesOf(daily))

\* S3: the daily response is consumed
SwingAfterDaily(state, locals, account_context, daily) ==
    IF ~daily.success THEN FetchFailed("htf", daily, state, "daily OHLCV")
    ELSE SwingAnalyse(state, locals, account_context, CandlesOf(daily))

-----------------------------------------------------------------------------
(* planners/options_buying.py *)

\* characters in code-point order, for the comparison of date strings
Ranked == "-0123456789" \o Uppers \o Lowers

Rank(c) == CHOOSE i \in 1..Len(Ranked) : CharAt(Ranked, i) = c

RECURSIVE StrLE(_, _)
\* a <= b on str
StrLE(a, b) ==
    IF Len(a) = 0 THEN TRUE
    ELSE IF Len(b) = 0 THEN FALSE
    ELSE IF CharAt(a, 1) = CharAt(b, 1) THEN StrLE(SubSeq(a, 2, Len(a)), SubSeq(b, 2, Len(b)))
    ELSE Rank(CharAt(a, 1)) < Rank(CharAt(b, 1))

RECURSIVE InsertSorted(_, _)
InsertSorted(x, s) ==
    IF s = <<>> THEN <<x>>
    ELSE IF StrLE(x, Head(s)) THEN <<x>> \o s
    ELSE <<Head(s)>> \o InsertSorted(x, Tail(s))

\* the list taken in the order given, never sorted
Sorted_AsGiven(s) == s

RECURSIVE Sorted(_)
\* sorted(expiries)
Sorted(s) == IF s = <<>> THEN <<>> ELSE InsertSorted(Head(s), Sorted(Tail(s)))

MinExpiryLen == 8

RECURSIVE LongEnough(_)
\* [e for e in expiries if isinstance(e, str) and len(e) >= 8]
LongEnough(s) ==
    IF s = <<>> THEN <<>>
    ELSE (IF Len(Head(s)) >= MinExpiryLen THEN <<Head(s)>> ELSE <<>>) \o LongEnough(Tail(s))

\* An expiry payload is [shape, key, dates]: shape "list" (a list of dates),
\* "dict_list" ({"data": [...]}), "dict_dict" ({"data": {key: [...]}}) or
\* "other" (None, or a dict without "data").
ExpiriesOf(expiry_payload) ==
    CASE expiry_payload.shape \in {"list", "dict_list"} -> expiry_payload.dates
      [] expiry_payload.shape = "dict_dict" ->
            IF expiry_payload.key \in {"data", "expiries", "expiry", "expiry_list"}
            THEN expiry_payload.dates ELSE <<>>
      [] OTHER -> <<>>

\* Optional[str]
pick_nearest_expiry(expiry_payload) ==
    LET expiries == LongEnough(ExpiriesOf(expiry_payload)) IN
    IF expiries = <<>> THEN None
    ELSE LET expiries_sorted == Sorted(expiries)
             future == { i \in 1..Len(expiries_sorted) : StrLE(Today, expiries_sorted[i]) }
         IN IF future # {}
            THEN Some(expiries_sorted[CHOOSE i \in future : \A j \in future : i <= j])
            ELSE Some(expiries_sorted[Len(expiries_sorted)])

\* Optional number: the ltp of the first quote
extract_underlying_ltp_from_quote(result) ==
    IF result.quotes = <<>> THEN None ELSE result.quotes[1].ltp

OptionsStart(user_query) ==
    LET underlying_symbol == extract_symbol_guess(user_query) IN
    IF underlying_symbol = None
    THEN Halt("intent", PlannerResult("ASK_USER", "Which underlying", EmptyState,
                                      <<"underlying_symbol">>, None, None))
    ELSE LET inst_type == IF is_index_symbol(underlying_symbol[1]) THEN "INDEX" ELSE "EQUITY"
         IN Call("find_instrument",
                 [query |-> Str(underlying_symbol[1]), instrument_type |-> Str(inst_type),
                  limit |-> Int_("1")],
                 [EmptyState EXCEPT !.intent =
                       Some([underlying_symbol |-> underlying_symbol[1],
                             trade_type |-> "OPTIONS_BUYING",
                             time_horizon |-> "INTRADAY", direction |-> "UNKNOWN"])],
                 [NoLocals EXCEPT !.symbol = underlying_symbol[1], !.inst_type = inst_type])

OptionsAfterFind(state, locals, inst_res) ==
    IF ~inst_res.success
    THEN Halt("instrument", PlannerResult("NO_TRADE", "Could not resolve instrument (error)",
                                          state, <<>>, None, None))
    ELSE IF InstrumentsLookupRaises(inst_res) THEN Raise("AttributeError", state)
    ELSE IF ResponseInstruments(inst_res) = None
    THEN Halt("instrument", PlannerResult("NO_TRADE", "Could not resolve instrument",
                                          state, <<>>, None, None))
    ELSE LET inst == ResponseInstruments(inst_res)[1][1]
             instrument == [security_id |-> PyStr(inst.security_id),
                            exchange_segment |-> inst.exchange_segment,
                            instrument_type |->
                                IF inst.instrument_type \in {None, Some("")}
                                THEN locals.inst_type ELSE inst.instrument_type[1]]
             st == [state EXCEPT !.instrument = Some(instrument)]
         IN IF instrument.security_id = "" \/ instrument.exchange_segment \in {None, Some("")}
            THEN Halt("instrument",
                      PlannerResult("NO_TRADE", "Instrument resolution returned incomplete data",
                                    st, <<>>, None, None))
            ELSE Call("get_daily_ohlcv",
                      [security_id |-> Str(instrument.security_id),
                       exchange_segment |-> Str(instrument.exchange_segment[1]),
                       instrument_type |-> Str(instrument.instrument_type),
                       from_date |-> Str(DaysAgo60), to_date |-> Str(Today)],
                      st, locals)

\* O3 without the regime gate: the intraday fetch follows every daily series
OptionsAfterDaily_NoGate(state, locals, daily) ==
    IF ~daily.success THEN FetchFailed("htf", daily, state, "daily OHLCV")
    ELSE LET bias == classify_htf_bias(CandlesOf(daily))
             st == [state EXCEPT !.htf =
                        Some([htf_bias |-> bias[1], allowed_direction |-> bias[2]])]
             instrument == state.instrument[1]
         IN Call("get_intraday_ohlcv",
                 [security_id |-> Str(instrument.security_id),
                  exchange_segment |-> Str(instrument.exchange_segment[1]),
                  instrument_type |-> Str(instrument.instrument_type),
                  interval |-> Str("5"),
                  from_date |-> Str(Today), to_date |-> Str(Today)],
                 st, [locals EXCEPT !.allowed_direction = bias[2]])

\* O3: HTF bias from the daily candles, then the intraday fetch
OptionsAfterDaily(state, locals, daily) ==
    IF ~daily.success THEN FetchFailed("htf", daily, state, "daily OHLCV")
    ELSE LET bias == classify_htf_bias(CandlesOf(daily))
             st == [state EXCEPT !.htf =
                        Some([htf_bias |-> bias[1], allowed_direction |-> bias[2]])]
             instrument == state.instrument[1]
         IN IF bias[2] = "NO_TRADE"
            THEN Halt("htf", PlannerResult("NO_TRADE", "HTF regime is RANGE/CHOP", st, <<>>,
                                           None, None))
            ELSE Call("get_intraday_ohlcv",
                      [security_id |-> Str(instrument.security_id),
                       exchange_segment |-> Str(instrument.exchange_segment[1]),
                       instrument_type |-> Str(instrument.instrument_type),
                       interval |-> Str("5"),
                       from_date |-> Str(Today), to_date |-> Str(Today)],
                      st, [locals EXCEPT !.allowed_direction = bias[2]])

OptionsAfterIntraday(state, locals, intraday) ==
    IF ~intraday.success THEN FetchFailed("ltf", intraday, state, "intraday OHLCV")
    ELSE LET ltf == classify_ltf_structure(CandlesOf(intraday))
             st == [state EXCEPT !.ltf =
                        Some([ltf_structure |-> ltf[1], entry_permission |-> ltf[2],
                              interval |-> "5"])]
             instrument == state.instrument[1]
         IN IF ~ltf[2]
            THEN Halt("ltf", PlannerResult("NO_TRADE", "LTF structure does not confirm entry",
                                           st, <<>>, None, None))
            ELSE Call("get_expiry_list",
                      [underlying_security_id |-> Str(instrument.security_id),
                       exchange_segment |-> Str(instrument.exchange_segment[1])],
                      st, locals)

\* O5 falling back on today's date when no expiry can be determined
OptionsAfterExpiry_DefaultDate(state, locals, expiry_res) ==
    LET picked == IF expiry_res.success THEN pick_nearest_expiry(expiry_res.data) ELSE None
        expiry_date == IF picked \in {None, Some("")} THEN Today ELSE picked[1]
        instrument == state.instrument[1]
    IN Call("get_option_chain",
            [underlying_security_id |-> Str(instrument.security_id),
             exchange_segment |-> Str(instrument.exchange_segment[1]),
             expiry_date |-> Str(expiry_date)],
            state, [locals EXCEPT !.expiry_date = expiry_date])

\* O5: expiry discovery, then the option-chain call
OptionsAfterExpiry(state, locals, expiry_res) ==
    LET expiry_date == IF expiry_res.success THEN pick_nearest_expiry(expiry_res.data)
                       ELSE None
        instrument == state.instrument[1]
    IN IF expiry_date \in {None, Some("")}
       THEN Halt("expiry", PlannerResult("ASK_USER", "Which expiry_date", state,
                                         <<"expiry_date">>, None, None))
       ELSE Call("get_option_chain",
                 [underlying_security_id |-> Str(instrument.security_id),
                  exchange_segment |-> Str(instrument.exchange_segment[1]),
                  expiry_date |-> Str(expiry_date[1])],
                 state, [locals EXCEPT !.expiry_date = expiry_date[1]])

\* the option-chain stage going on to the quote whether or not the fetch failed
OptionsAfterChain_IgnoreFailure(state, locals, oc) ==
    LET st == [state EXCEPT !.option_chain =
                   Some([expiry_date |-> locals.expiry_date, raw |-> oc.data])]
        instrument == state.instrument[1]
    IN IF ~IsIntString(instrument.security_id)
       THEN Raise("ValueError", st)
       ELSE Call("get_quote",
                 [securities |->
                     Obj("{" \o instrument.exchange_segment[1] \o ":["
                             \o instrument.security_id \o "]}")],
                 st, locals)

\* the option-chain snapshot is recorded and the spot quote requested
OptionsAfterChain(state, locals, oc) ==
    IF ~oc.success THEN FetchFailed("option_chain", oc, state, "option chain")
    ELSE LET st == [state EXCEPT !.option_chain =
                        Some([expiry_date |-> locals.expiry_date, raw |-> oc.data])]
             instrument == state.instrument[1]
         IN IF ~IsIntString(instrument.security_id)
            THEN Raise("ValueError", st)
            ELSE Call("get_quote",
                      [securities |->
                          Obj("{" \o instrument.exchange_segment[1] \o ":["
                                  \o instrument.security_id \o "]}")],
                      st, locals)

OptionsAfterQuote(state, locals, account_context, quote) ==
    LET spot == IF quote.success THEN extract_underlying_ltp_from_quote(quote) ELSE None
        selected == [option_type |-> IF locals.allowed_direction = "CE_ONLY" THEN "CE" ELSE "PE",
                     strike |-> None, security_id |-> None, exchange_segment |-> None,
                     expiry |-> locals.expiry_date]
        st == [state EXCEPT !.selected_option = Some(selected)]
        risk == risk_budget_from_account(account_context)
    IN IF selected.security_id = None
       THEN Halt("selection", PlannerResult("ASK_USER", "Which option contract", st,
                                            <<"option_security_id", "option_exchange_segment">>,
                                            None, None))
       ELSE IF risk.message # None
       THEN Halt("risk", PlannerResult("ASK_USER", risk.message[1], st,
                                       <<"account_context.capital",
                                         "account_context.max_risk_per_trade">>,
                                       None, None))
       ELSE Halt("risk", PlannerResult("ASK_USER", "I need the option lot_size", st,
                                       <<"lot_size">>, None, None))

-----------------------------------------------------------------------------
(* planners/router.py *)

LowerChar(c) ==
    IF \E i \in 1..Len(Uppers) : CharAt(Uppers, i) = c
    THEN CharAt(Lowers, CHOOSE i \in 1..Len(Uppers) : CharAt(Uppers, i) = c)
    ELSE c

RECURSIVE LowerCase(_)
\* s.lower()
LowerCase(s) ==
    IF Len(s) = 0 THEN "" ELSE LowerChar(CharAt(s, 1)) \o LowerCase(SubSeq(s, 2, Len(s)))

SwingKeywords == {"swing", "weeks", "positional"}

OptionKeywords == {"option", "options", "ce", "pe", "call", "put"}

\* the keyword tests in the other order: option keywords win over swing keywords
classify_intent_OptionsFirst(user_query) ==
    LET q == LowerCase(user_query) IN
    IF \E k \in OptionKeywords : Contains(q, k) THEN "OPTIONS_BUYING"
    ELSE "SWING_BUY"

\* (user_query or ""), for a user_query that may be None
OrEmpty(user_query) == IF user_query = None THEN "" ELSE user_query[1]

classify_intent(user_query) ==
    LET q == LowerCase(user_query) IN
    IF \E k \in SwingKeywords : Contains(q, k) THEN "SWING_BUY"
    ELSE IF \E k \in OptionKeywords : Contains(q, k) THEN "OPTIONS_BUYING"
    ELSE "SWING_BUY"

\* the first step of the pipeline run_planner selects
run_planner(user_query) ==
    IF classify_intent(user_query) = "OPTIONS_BUYING"
    THEN OptionsStart(user_query) ELSE SwingStart(user_query)

-----------------------------------------------------------------------------
(* The inputs of a run: the request, the account context and the responses   *)
(* the ToolClient hands back.                                                *)

Queries == {"", "TCS swing", "buy INFY", "NIFTY options", "buy reliance", "buy ce"}

Fig(kind, v) == [kind |-> kind, v |-> v]

Account(capital, pct) == [capital |-> capital, max_risk_per_trade |-> pct]

Accounts ==
    { Account(Fig("none", 0), Fig("none", 0)),
      Account(Fig("none", 0), Fig("num", 1)),
      Account(Fig("text", 0), Fig("num", 1)),
      Account(Fig("num", 0), Fig("num", 1)),
      Account(Fig("num", 500), Fig("num", 1)),
      Account(Fig("num", 50000), Fig("num", 1)),
      Account(Fig("num", 50500), Fig("num", 1)),
      Account(Fig("num", 50000), Fig("none", 0)),
      Account(Fig("num", 50000), Fig("text", 0)),
      Account(Fig("num", 50000), Fig("num", 0)),
      Account(Fig("nan", 0), Fig("num", 1)) }

\* one instrument of a find_instrument response; a key the mapping lacks is None
Instrument(security_id, exchange_segment, instrument_type) ==
    [security_id |-> security_id, exchange_segment |-> exchange_segment,
     instrument_type |-> instrument_type]

Instruments ==
    { Instrument(sid, seg, None) :
        sid \in {Some(Int_("1333")), None, Some(Str("ABC")), Some(Str(""))},
        seg \in {Some("NSE_EQ"), None} }
    \cup { Instrument(Some(Int_("13")), Some("IDX_I"), Some("INDEX")) }

FindResponse(success, error, shape, instruments) ==
    [success |-> success, error |-> error, shape |-> shape, instruments |-> instruments]

FindResponses ==
    { FindResponse(FALSE, Some("not found"), "none", <<>>),
      FindResponse(FALSE, None, "none", <<>>),
      FindResponse(TRUE, None, "none", <<>>),
      FindResponse(TRUE, None, "data_null", <<>>),
      FindResponse(TRUE, None, "top", <<>>),
      FindResponse(TRUE, None, "data", <<Instrument(Some(Int_("1333")), Some("NSE_EQ"), None)>>) }
    \cup { FindResponse(TRUE, None, "top", <<i>>) : i \in Instruments }

\* a response of a data tool: success, the guard's action when it blocked the
\* call, the error text, the fields the guard named, and the data
Response(success, action, error, missing, data) ==
    [success |-> success, action |-> action, error |-> error,
     missing_fields |-> missing, data |-> data]

FailedResponses ==
    { Response(FALSE, "", Some("upstream failed"), <<>>, None),
      Response(FALSE, "", None, <<>>, None),
      Response(FALSE, "ASK_USER", Some("I need: interval"), <<"interval">>, None),
      Response(FALSE, "ASK_USER_INVALID", None, <<>>, None) }

Candle(high, low, close, volume) ==
    [high |-> high, low |-> low, close |-> close, volume |-> volume]

MaxExtraCandles == 1

\* n candles: the older ones close at a, the last 20 at b, the last one at c;
\* bad = "close" makes the last close unparsable, bad = "levels" every high,
\* bad = "high" the high of the last candle but one, whose low lies 10 lower
DailySeries(n, a, b, c, low, vol, bad) ==
    [i \in 1..n |->
        LET close == IF i = n THEN c ELSE IF i > n - RecentWindow THEN b ELSE a
        IN Candle(IF bad = "levels" \/ (bad = "high" /\ i = n - 1)
                  THEN None ELSE Some(close + 5),
                  IF bad = "high" /\ i = n - 1 THEN Some(low - 10) ELSE Some(low),
                  IF bad = "close" /\ i = n THEN None ELSE Some(close),
                  Some(vol))]

DailyLengths == (MinDailyCloses - 1)..(MinDailyCloses + MaxExtraCandles)

DailyResponses ==
    FailedResponses
    \cup { Response(TRUE, "", None, <<>>, None) }
    \cup { Response(TRUE, "", None, <<>>, Some(DailySeries(n, a, b, c, low, vol, bad))) :
             n \in DailyLengths, a \in {80, 100, 120}, b \in {95, 100}, c \in {90, 100},
             low \in {90, 100}, vol \in {0, 1},
             bad \in {"", "close", "levels", "high"} }

\* n flat candles around 100; the last one closes at c; with spike the
\* oldest candle of the previous 20-candle window carries a higher high
IntradaySeries(n, c, spike, vol) ==
    [i \in 1..n |->
        Candle(Some(IF spike /\ i = n - SwingLookback
                    THEN 110 ELSE 101),
               Some(99),
               IF i = n THEN c ELSE Some(100),
               Some(vol))]

IntradayLengths == (MinIntradayCandles - 1)..(MinIntradayCandles + MaxExtraCandles)

IntradayResponses ==
    FailedResponses
    \cup { Response(TRUE, "", None, <<>>, None) }
    \cup { Response(TRUE, "", None, <<>>, Some(IntradaySeries(n, c, spike, vol))) :
             n \in IntradayLengths, c \in {None, Some(95), Some(100), Some(105)},
             spike \in BOOLEAN, vol \in {0, 1} }

ExpiryPayload(shape, key, dates) == [shape |-> shape, key |-> key, dates |-> dates]

ExpiryPayloads ==
    { ExpiryPayload("list", "", <<"2026-11-26", "2026-11-05">>),
      ExpiryPayload("list", "", <<"2026-10-29", "2026-11-02">>),
      ExpiryPayload("list", "", <<"None", "1234567">>),
      ExpiryPayload("dict_list", "", <<"2026-10-29", "2026-09-24", "2026-10-01">>),
      ExpiryPayload("dict_list", "", <<>>),
      ExpiryPayload("dict_dict", "expiries", <<"2026-12-31", "2026-11-26">>),
      ExpiryPayload("dict_dict", "other", <<"2026-11-26">>),
      ExpiryPayload("other", "", <<>>) }

ExpiryResponses ==
    FailedResponses
    \cup { Response(TRUE, "", None, <<>>, payload) : payload \in ExpiryPayloads }

ChainResponses ==
    FailedResponses
    \cup { Response(TRUE, "", None, <<>>, None),
           Response(TRUE, "", None, <<>>, Some("chain")) }

QuoteResponse(success, quotes) == [success |-> success, quotes |-> quotes]

QuoteResponses ==
    { QuoteResponse(FALSE, <<>>),
      QuoteResponse(TRUE, <<>>),
      QuoteResponse(TRUE, <<[ltp |-> None]>>),
      QuoteResponse(TRUE, <<[ltp |-> Some(25000)]>>) }

-----------------------------------------------------------------------------
(* A run of run_planner: one action per stretch of code between two awaits.  *)

PlanInit ==
    /\ pc = "start"
    /\ pPlanner = ""
    /\ pQuery \in Queries
    /\ pAccount \in Accounts
    /\ pState = EmptyState
    /\ pLocals = NoLocals
    /\ pCalls = <<>>
    /\ pFindIn = <<>>
    /\ pDailyIn = NoSeries
    /\ pLastIn = <<>>
    /\ pResult = <<>>
    /\ pHalt = ""
    /\ pExc = ""
    /\ GuardIdle
    /\ ToolsIdle
    /\ FnIdle
    /\ PairIdle
    /\ DaemonIdle

\* the step's effect: the terminal result, the next tools.call, or the
\* exception that leaves run()
Apply(step) ==
    CASE step.kind = "halt" ->
            /\ pc' = "done"
            /\ pResult' = <<step.result>>
            /\ pHalt' = step.stage
            /\ pState' = step.result.state
            /\ UNCHANGED <<pLocals, pCalls, pExc>>
      [] step.kind = "call" ->
            /\ pc' = step.tool
            /\ pCalls' = Append(pCalls, [tool |-> step.tool, args |-> step.args])
            /\ pState' = step.state
            /\ pLocals' = step.locals
            /\ UNCHANGED <<pResult, pHalt, pExc>>
      [] step.kind = "raise" ->
            /\ pc' = "raised"
            /\ pExc' = step.exc
            /\ pState' = step.state
            /\ UNCHANGED <<pLocals, pCalls, pResult, pHalt>>

PlanStart ==
    /\ pc = "start"
    /\ pPlanner' = classify_intent(pQuery)
    /\ Apply(run_planner(pQuery))
    /\ UNCHANGED <<pQuery, pAccount, pFindIn, pDailyIn, pLastIn, guardVars, toolVars, fnVars,
                   pairVars, daemonVars>>

FindReturn ==
    /\ pc = "find_instrument"
    /\ \E inst_res \in FindResponses :
          /\ pFindIn' = <<inst_res>>
          /\ Apply(IF pPlanner = "OPTIONS_BUYING"
                   THEN OptionsAfterFind(pState, pLocals, inst_res)
                   ELSE SwingAfterFind(pState, pLocals, inst_res))
    /\ UNCHANGED <<pPlanner, pQuery, pAccount, pDailyIn, pLastIn, guardVars, toolVars, fnVars,
                   pairVars, daemonVars>>

DailyReturn ==
    /\ pc = "get_daily_ohlcv"
    /\ \E daily \in DailyResponses :
          /\ pDailyIn' = daily
          /\ Apply(IF pPlanner = "OPTIONS_BUYING"
                   THEN OptionsAfterDaily(pState, pLocals, daily)
                   ELSE SwingAfterDaily(pState, pLocals, pAccount, daily))
    /\ UNCHANGED <<pPlanner, pQuery, pAccount, pFindIn, pLastIn, guardVars, toolVars, fnVars,
                   pairVars, daemonVars>>

IntradayReturn ==
    /\ pc = "get_intraday_ohlcv"
    /\ \E intraday \in IntradayResponses :
          /\ pLastIn' = <<[tool |-> pc, res |-> intraday]>>
          /\ Apply(OptionsAfterIntraday(pState, pLocals, intraday))
    /\ pDailyIn' = NoSeries
    /\ UNCHANGED <<pPlanner, pQuery, pAccount, pFindIn, guardVars, toolVars, fnVars, pairVars, daemonVars>>

ExpiryReturn ==
    /\ pc = "get_expiry_list"
    /\ \E expiry_res \in ExpiryResponses :
          /\ pLastIn' = <<[tool |-> pc, res |-> expiry_res]>>
          /\ Apply(OptionsAfterExpiry(pState, pLocals, expiry_res))
    /\ UNCHANGED <<pPlanner, pQuery, pAccount, pFindIn, pDailyIn, guardVars, toolVars,
                   fnVars, pairVars, daemonVars>>

ChainReturn ==
    /\ pc = "get_option_chain"
    /\ \E oc \in ChainResponses :
          /\ pLastIn' = <<[tool |-> pc, res |-> oc]>>
          /\ Apply(OptionsAfterChain(pState, pLocals, oc))
    /\ UNCHANGED <<pPlanner, pQuery, pAccount, pFindIn, pDailyIn, guardVars, toolVars,
                   fnVars, pairVars, daemonVars>>

QuoteReturn ==
    /\ pc = "get_quote"
    /\ \E quote \in QuoteResponses :
          /\ pLastIn' = <<[tool |-> pc, res |-> quote]>>
          /\ Apply(OptionsAfterQuote(pState, pLocals, pAccount, quote))
    /\ UNCHANGED <<pPlanner, pQuery, pAccount, pFindIn, pDailyIn, guardVars, toolVars,
                   fnVars, pairVars, daemonVars>>

PlanNext ==
    \/ PlanStart
    \/ FindReturn
    \/ DailyReturn
    \/ IntradayReturn
    \/ ExpiryReturn
    \/ ChainReturn
    \/ QuoteReturn

SpecPlan == PlanInit /\ [][PlanNext]_vars

-----------------------------------------------------------------------------
(* Claims about the pipelines, checked under SpecPlan                        *)

PlanDone == pc = "done"

\* the PlannerResult a finished run returned
Returned == pResult[1]

SwingDecided == PlanDone /\ pPlanner = "SWING_BUY" /\ Returned.action = "DECISION"

\* the levels and the size the claim speaks of, from the daily series the
\* tool returned and the account context
LastClose == LET closes == ParsedField(CandlesOf(pDailyIn), "close") IN closes[Len(closes)]

\* the stop the pipeline derives: the lowest low among those of the last 20
\* candles that carry both a high and a low
DerivedStop ==
    LET recent == LastN(CandlesOf(pDailyIn), 20)
        lows == { recent[i].low[1] :
                    i \in { k \in 1..Len(recent) :
                              recent[k].high # <<>> /\ recent[k].low # <<>> } }
    IN CHOOSE m \in lows : \A x \in lows : m <= x

Budget == risk_budget_from_account(pAccount).amount[1]

\* floor(budget / (entry - stop)), for entry > stop
SharesAffordable == Budget.num \div (Budget.den * (LastClose - DerivedStop))

\* C6: the swing-buy pipeline does not return DECISION when the derived stop
\* (minimum low of the last 20 candles) is >= the entry (last close), when
\* reward:risk is below 2.0, or when the computed quantity is <= 0. Stated on
\* every DECISION: stop < entry, (target - entry) >= 2 * (entry - stop), and a
\* positive quantity, both as recomputed from the inputs and as reported.
C6_DecisionNeedsValidPlan ==
    SwingDecided =>
        LET d == Returned.decision[1] IN
        /\ DerivedStop < LastClose
        /\ d.entry = LastClose
        /\ d.stop_loss = DerivedStop
        /\ d.target - d.entry >= 2 * (d.entry - d.stop_loss)
        /\ SharesAffordable > 0
        /\ d.quantity = SharesAffordable

\* a run that reached sizing with a stop below the entry but a budget that
\* buys no share, and was refused
C6_Witness ==
    /\ PlanDone
    /\ pPlanner = "SWING_BUY"
    /\ pHalt = "risk"
    /\ Returned.action = "NO_TRADE"
    /\ risk_budget_from_account(pAccount).amount # None
    /\ ParsedField(LastN(CandlesOf(pDailyIn), 20), "high") # <<>>
    /\ DerivedStop < LastClose
    /\ SharesAffordable <= 0

PlannerActions == {"ASK_USER", "NO_TRADE", "DECISION", "ERROR"}

\* C7: every returned PlannerResult has action in {ASK_USER, NO_TRADE,
\* DECISION, ERROR}; missing_fields is non-empty only when action is ASK_USER,
\* error is set only when action is ERROR, and decision is set exactly when
\* action is DECISION.
C7_ResultFieldsMatchAction ==
    PlanDone =>
        /\ Returned.action \in PlannerActions
        /\ Returned.missing_fields # <<>> => Returned.action = "ASK_USER"
        /\ Returned.error # None => Returned.action = "ERROR"
        /\ Returned.decision # None <=> Returned.action = "DECISION"

\* a fetch that failed with an error text and was returned as ERROR
C7_Witness ==
    /\ PlanDone
    /\ Returned.action = "ERROR"
    /\ Returned.error # None
    /\ Returned.missing_fields = <<>>
    /\ Returned.decision = None

\* C8: every returned PlannerResult with action ASK_USER, including those
\* produced because a remote call was blocked by the guard, carries a
\* non-empty missing_fields list.
C8_AskUserNamesFields ==
    (PlanDone /\ Returned.action = "ASK_USER") => Returned.missing_fields # <<>>

\* C9: a run ends by returning exactly one PlannerResult and no condition
\* leaves the pipeline as an exception: no run is ever in the state where an
\* exception has left run(), and a result is held exactly by the finished runs.
C9_NoExceptionEscapes ==
    /\ pc # "raised"
    /\ pExc = ""
    /\ PlanDone <=> Len(pResult) = 1

\* the stages of a run, in the order the code goes through them
StageRank(stage) ==
    CASE stage = "intent" -> 1
      [] stage = "instrument" -> 2
      [] stage = "htf" -> 3
      [] stage = "ltf" -> 4
      [] stage = "expiry" -> 5
      [] stage = "option_chain" -> 6
      [] stage = "selection" -> 7
      [] stage = "risk" -> 8
      [] stage = "decision" -> 9

SwingAtRisk ==
    /\ pPlanner = "SWING_BUY"
    /\ pc \in {"done", "raised"}
    /\ pState.ltf # <<>>
    /\ pState.ltf[1].volume_confirmation

\* a figure of the account context that is no number greater than zero:
\* missing, text, not-a-number, zero or negative
Unusable(figure) == figure.kind # "num" \/ figure.v <= 0

\* C17: when the swing risk stage is reached and the risk budget cannot be
\* computed from the account context (capital or max_risk_per_trade missing,
\* non-numeric or non-positive), the run returns ASK_USER with missing_fields
\* exactly [account_context.capital, account_context.max_risk_per_trade], and
\* no DECISION.
C17_NoBudgetAsksUser ==
    (SwingAtRisk /\ (Unusable(pAccount.capital) \/ Unusable(pAccount.max_risk_per_trade))) =>
        /\ PlanDone
        /\ Returned.action = "ASK_USER"
        /\ Returned.missing_fields =
              <<"account_context.capital", "account_context.max_risk_per_trade">>
        /\ Returned.decision = None

-----------------------------------------------------------------------------
(* The pure functions of the planners, each applied once to an argument      *)
(* drawn from a bounded set.                                                 *)

\* user_query values, None for a missing text
IntentQueries ==
    { None, Some(""), Some("   "), Some("swing"), Some("TCS for 2 weeks"),
      Some("positional INFY"), Some("Buy OPTIONS"), Some("nifty option"),
      Some("buy ce"), Some("PE today"), Some("Call"), Some("put"),
      Some("weeks call"), Some("SWING CE"), Some("positional put option"),
      Some("buy reliance"), Some("nice stock"), Some("TCS"), Some("buy INFY"),
      Some("spend") }

\* which pipeline a first step belongs to
StartedPipeline(step) ==
    IF step.kind = "halt"
    THEN (IF step.result.missing_fields = <<"underlying_symbol">>
          THEN "OPTIONS_BUYING" ELSE "SWING_BUY")
    ELSE step.state.intent[1].trade_type

\* daily series for the bias: empty, or around the 60-close limit, with flat,
\* rising and falling closes and with an unparsable last close
BiasSeries ==
    { <<>> }
    \cup { DailySeries(n, a, b, c, 90, 1, bad) :
             n \in DailyLengths, a \in {80, 100, 120}, b \in {95, 100, 105},
             c \in {90, 100, 110}, bad \in {"", "close"} }

\* a series with the highs of its last k candles unparsable
HighsLost(series, k) ==
    [i \in 1..Len(series) |->
        IF i > Len(series) - k THEN [series[i] EXCEPT !.high = None] ELSE series[i]]

\* a series whose last candle carries the given high
LastHigh(series, high) ==
    [i \in 1..Len(series) |->
        IF i = Len(series) THEN [series[i] EXCEPT !.high = Some(high)] ELSE series[i]]

\* intraday series for the structure: around the 30-candle limit, closing
\* above, at and below the flat price, with and without volume, with an older
\* or a fresh high, and with unparsable closes and highs
StructureSeries ==
    LET base == { IntradaySeries(n, c, spike, vol) :
                    n \in IntradayLengths, c \in {None, Some(95), Some(100), Some(105)},
                    spike \in BOOLEAN, vol \in {0, 1} }
    IN { <<>> }
       \cup base
       \cup { HighsLost(s, SwingLookback + 1) : s \in base }
       \cup { HighsLost(s, Len(s)) : s \in base }
       \cup { LastHigh(s, 120) : s \in base }

\* account contexts: every pairing of a missing, textual, NaN, negative, zero
\* and positive capital with such a max_risk_per_trade
RiskAccounts ==
    { Account(capital, pct) :
        capital \in {Fig("none", 0), Fig("text", 0), Fig("nan", 0), Fig("num", 0 - 100),
                     Fig("num", 0), Fig("num", 500), Fig("num", 50000)},
        pct \in {Fig("none", 0), Fig("text", 0), Fig("nan", 0), Fig("num", 0 - 1),
                 Fig("num", 0), Fig("num", 1), Fig("num", 2)} }

MaxExpiries == 3

\* ISO dates before, on and after Today, across a month and a year boundary
ExpiryDates == {"2025-12-31", "2026-10-29", "2026-11-02", "2026-11-05", "2027-01-07"}

\* every list of up to MaxExpiries of these dates, in every order
ExpiryLists == UNION { [1..k -> ExpiryDates] : k \in 0..MaxExpiries }

\* expiry payloads: the date lists in each accepted wrapper shape, and
\* payloads that hold no usable date string
ExpiryInputs ==
    { ExpiryPayload(shape, "", dates) : shape \in {"list", "dict_list"}, dates \in ExpiryLists }
    \cup { ExpiryPayload("dict_dict", key, dates) :
             key \in {"data", "expiries", "expiry", "expiry_list"}, dates \in ExpiryLists }
    \cup { ExpiryPayload("other", "", <<>>),
           ExpiryPayload("list", "", <<"None", "1234567">>),
           ExpiryPayload("dict_list", "", <<"">>) }

FnInputs(name) ==
    CASE name = "classify_intent" -> IntentQueries
      [] name = "_pick_nearest_expiry" -> ExpiryInputs
      [] name = "classify_htf_bias" -> BiasSeries
      [] name = "classify_ltf_structure" -> StructureSeries
      [] name = "risk_budget_from_account" -> RiskAccounts

FnNames ==
    {"classify_intent", "classify_htf_bias", "classify_ltf_structure",
     "risk_budget_from_account", "_pick_nearest_expiry"}

FnInit ==
    /\ fName \in FnNames
    /\ fIn \in FnInputs(fName)
    /\ fOut = <<>>
    /\ GuardIdle
    /\ ToolsIdle
    /\ PlanIdle
    /\ PairIdle
    /\ DaemonIdle

\* classify_intent(user_query), and the pipeline run_planner starts for it
ClassifyIntent ==
    /\ fName = "classify_intent"
    /\ fOut = <<>>
    /\ fOut' = <<[intent |-> classify_intent(OrEmpty(fIn)),
                  pipeline |-> StartedPipeline(run_planner(OrEmpty(fIn)))]>>
    /\ UNCHANGED <<fName, fIn, guardVars, toolVars, planVars, pairVars, daemonVars>>

ClassifyHtfBias ==
    /\ fName = "classify_htf_bias"
    /\ fOut = <<>>
    /\ fOut' = <<classify_htf_bias(fIn)>>
    /\ UNCHANGED <<fName, fIn, guardVars, toolVars, planVars, pairVars, daemonVars>>

ClassifyLtfStructure ==
    /\ fName = "classify_ltf_structure"
    /\ fOut = <<>>
    /\ fOut' = <<classify_ltf_structure(fIn)>>
    /\ UNCHANGED <<fName, fIn, guardVars, toolVars, planVars, pairVars, daemonVars>>

RiskBudgetFromAccount ==
    /\ fName = "risk_budget_from_account"
    /\ fOut = <<>>
    /\ fOut' = <<risk_budget_from_account(fIn)>>
    /\ UNCHANGED <<fName, fIn, guardVars, toolVars, planVars, pairVars, daemonVars>>

PickNearestExpiry ==
    /\ fName = "_pick_nearest_expiry"
    /\ fOut = <<>>
    /\ fOut' = <<pick_nearest_expiry(fIn)>>
    /\ UNCHANGED <<fName, fIn, guardVars, toolVars, planVars, pairVars, daemonVars>>

FnNext ==
    \/ ClassifyIntent
    \/ ClassifyHtfBias
    \/ ClassifyLtfStructure
    \/ RiskBudgetFromAccount
    \/ PickNearestExpiry

SpecFn == FnInit /\ [][FnNext]_vars

-----------------------------------------------------------------------------
(* Claims about the pure functions, checked under SpecFn                     *)

Applied(name) == fName = name /\ fOut # <<>>

\* k occurs in text: text is some prefix, then k, then some suffix
Occurs(text, k) ==
    \E n \in 0..Len(text) :
        /\ n + Len(k) <= Len(text)
        /\ \A i \in 1..Len(k) : SubSeq(text, n + i, n + i) = SubSeq(k, i, i)

\* C11: classify_intent is total and returns OPTIONS_BUYING exactly when the
\* lower-cased text matches no swing keyword (swing, weeks, positional) and
\* at least one option keyword (option, options, ce, pe, call, put); in every
\* other case, including empty or missing text and text matching both sets,
\* it returns SWING_BUY; run_planner runs the options pipeline only for
\* OPTIONS_BUYING.
C11_IntentByKeywords ==
    Applied("classify_intent") =>
        LET text == LowerCase(IF fIn = <<>> THEN "" ELSE fIn[1])
            swing == \E k \in {"swing", "weeks", "positional"} : Occurs(text, k)
            option == \E k \in {"option", "options", "ce", "pe", "call", "put"} :
                          Occurs(text, k)
            expected == IF ~swing /\ option THEN "OPTIONS_BUYING" ELSE "SWING_BUY"
        IN /\ fOut[1].intent = expected
           /\ fOut[1].pipeline = expected

\* a text matching both keyword sets, classified SWING_BUY
C11_Witness ==
    /\ Applied("classify_intent")
    /\ fIn = Some("weeks call")
    /\ fOut[1].intent = "SWING_BUY"
    /\ fOut[1].pipeline = "SWING_BUY"

\* the parsable values of a field, in candle order
Parsable(candles, field) ==
    LET idx == { i \in 1..Len(candles) : candles[i][field] # <<>> }
        Nth(k) == CHOOSE i \in idx : Cardinality({ j \in idx : j <= i }) = k
    IN [k \in 1..Cardinality(idx) |-> candles[Nth(k)][field][1]]

\* the sum of the last n values
SumOfLast(values, n) ==
    LET from == Len(values) - n + 1
        Partial[i \in (from - 1)..Len(values)] ==
            IF i < from THEN 0 ELSE Partial[i - 1] + values[i]
    IN Partial[Len(values)]

\* C12: classify_htf_bias returns (RANGE, NO_TRADE) for every series with
\* fewer than 60 parsable closes; otherwise (BULLISH, CE_ONLY) iff
\* SMA20 > SMA50 and last close > SMA20, (BEARISH, PE_ONLY) iff SMA20 < SMA50
\* and last close < SMA20, and (RANGE, NO_TRADE) in all remaining cases
\* including equalities. The averages are compared as sums: SMA20 > SMA50 is
\* 50 * sum20 > 20 * sum50, and last > SMA20 is 20 * last > sum20.
C12_BiasBySmaOrder ==
    Applied("classify_htf_bias") =>
        LET closes == Parsable(fIn, "close")
            sum20 == SumOfLast(closes, 20)
            sum50 == SumOfLast(closes, 50)
            last == closes[Len(closes)]
        IN IF Len(closes) < 60 THEN fOut[1] = <<"RANGE", "NO_TRADE">>
           ELSE IF 50 * sum20 > 20 * sum50 /\ 20 * last > sum20
                THEN fOut[1] = <<"BULLISH", "CE_ONLY">>
           ELSE IF 50 * sum20 < 20 * sum50 /\ 20 * last < sum20
                THEN fOut[1] = <<"BEARISH", "PE_ONLY">>
           ELSE fOut[1] = <<"RANGE", "NO_TRADE">>

\* a series of at least 60 closes whose averages are equal, classified RANGE
C12_Witness ==
    /\ Applied("classify_htf_bias")
    /\ Len(Parsable(fIn, "close")) >= 60
    /\ 50 * SumOfLast(Parsable(fIn, "close"), 20) = 20 * SumOfLast(Parsable(fIn, "close"), 50)
    /\ fOut[1] = <<"RANGE", "NO_TRADE">>

\* the candles that enter the VWAP: high, low and close all parse
Priced(candles) ==
    { i \in 1..Len(candles) :
        candles[i].high # <<>> /\ candles[i].low # <<>> /\ candles[i].close # <<>> }

\* the sum of term(i) over the candles 1..n that enter the VWAP
PricedSum(candles, term(_)) ==
    LET Partial[i \in 0..Len(candles)] ==
            IF i = 0 THEN 0
            ELSE Partial[i - 1] + (IF i \in Priced(candles) THEN term(i) ELSE 0)
    IN Partial[Len(candles)]

TradedVolume(candles) ==
    LET Vol(i) == IF candles[i].volume = <<>> THEN 0 ELSE candles[i].volume[1]
    IN PricedSum(candles, Vol)

\* three times the sum of typical price times volume
TradedValue3(candles) ==
    LET Val(i) == (candles[i].high[1] + candles[i].low[1] + candles[i].close[1])
                  * (IF candles[i].volume = <<>> THEN 0 ELSE candles[i].volume[1])
    IN PricedSum(candles, Val)

\* the parsable highs of the candles from..to
HighsIn(candles, from, to) ==
    { candles[i].high[1] : i \in { j \in from..to : j >= 1 /\ candles[j].high # <<>> } }

Highest(S) == CHOOSE x \in S : \A y \in S : y <= x

LastParsed(candles) == candles # <<>> /\ candles[Len(candles)].close # <<>>

\* close > VWAP and the 20-candle swing high >= the swing high excluding the
\* latest candle
BullishCondition(candles) ==
    LET n == Len(candles)
        now == HighsIn(candles, n - 19, n)
        before == HighsIn(candles, n - 20, n - 1)
    IN /\ LastParsed(candles)
       /\ TradedVolume(candles) > 0
       /\ 3 * candles[n].close[1] * TradedVolume(candles) > TradedValue3(candles)
       /\ now # {}
       /\ before # {}
       /\ Highest(now) >= Highest(before)

\* close < VWAP
BearishCondition(candles) ==
    /\ LastParsed(candles)
    /\ TradedVolume(candles) > 0
    /\ 3 * candles[Len(candles)].close[1] * TradedVolume(candles) < TradedValue3(candles)

\* C13: classify_ltf_structure returns (NEUTRAL, no entry) for fewer than 30
\* candles and whenever the bullish condition and the bearish condition both
\* hold or both fail; it returns entry permission true exactly when the
\* returned structure is BULLISH (only the bullish condition holds) or
\* BEARISH (only the bearish condition holds).
C13_StructureByConditions ==
    Applied("classify_ltf_structure") =>
        LET bullish == BullishCondition(fIn)
            bearish == BearishCondition(fIn)
        IN /\ fOut[1] = IF Len(fIn) < 30 \/ (bullish <=> bearish) THEN <<"NEUTRAL", FALSE>>
                        ELSE IF bullish THEN <<"BULLISH", TRUE>>
                        ELSE <<"BEARISH", TRUE>>
           /\ fOut[1][2] <=> fOut[1][1] \in {"BULLISH", "BEARISH"}

\* a series of at least 30 candles closing above the VWAP with the swing high
\* equal to the previous one, classified BULLISH with entry permission
C13_Witness ==
    /\ Applied("classify_ltf_structure")
    /\ Len(fIn) >= 30
    /\ BullishCondition(fIn)
    /\ Highest(HighsIn(fIn, Len(fIn) - 19, Len(fIn)))
         = Highest(HighsIn(fIn, Len(fIn) - 20, Len(fIn) - 1))
    /\ fOut[1] = <<"BULLISH", TRUE>>

\* a figure that is present, numeric and greater than 0
PositiveNumber(figure) == figure.kind = "num" /\ figure.v > 0

\* C14: risk_budget_from_account returns an amount (and no message) iff
\* capital and max_risk_per_trade are both present, numeric and greater than
\* 0, and that amount is positive and equals capital x max_risk_per_trade /
\* 100; in every other case it returns no amount together with a guidance
\* message, so exactly one of amount and message is set.
C14_BudgetIffPositiveInputs ==
    Applied("risk_budget_from_account") =>
        LET amount == fOut[1].amount
            message == fOut[1].message
        IN IF PositiveNumber(fIn.capital) /\ PositiveNumber(fIn.max_risk_per_trade)
           THEN /\ amount # <<>>
                /\ message = <<>>
                /\ amount[1].den > 0
                /\ amount[1].num > 0
                /\ amount[1].num * 100
                     = fIn.capital.v * fIn.max_risk_per_trade.v * amount[1].den
           ELSE amount = <<>> /\ message # <<>>

\* the number a run of decimal digits denotes
DigitValue(c) == CHOOSE d \in 0..9 : SubSeq("0123456789", d + 1, d + 1) = c

NumberAt(s, from, to) ==
    LET Value[i \in (from - 1)..to] ==
            IF i < from THEN 0 ELSE 10 * Value[i - 1] + DigitValue(SubSeq(s, i, i))
    IN Value[to]

\* the day a YYYY-MM-DD string names, as a number ordered like the calendar
DayNumber(d) == NumberAt(d, 1, 4) * 10000 + NumberAt(d, 6, 7) * 100 + NumberAt(d, 9, 10)

\* the usable date strings a payload holds
DatesHeld(payload) == { payload.dates[i] : i \in { j \in 1..Len(payload.dates) :
                                                    Len(payload.dates[j]) = 10 } }

\* C15: _pick_nearest_expiry, given ISO dates in any order and in any accepted
\* wrapper shape, returns the earliest date that is >= today whenever there
\* is one; if every date is before today it returns the latest date; it
\* returns no date only when the input holds no usable date string. Dates
\* are compared by the calendar day they name.
C15_NearestExpiry ==
    Applied("_pick_nearest_expiry") =>
        LET held == DatesHeld(fIn)
            coming == { d \in held : DayNumber(d) >= DayNumber(Today) }
        IN IF held = {} THEN fOut[1] = <<>>
           ELSE /\ fOut[1] # <<>>
                /\ fOut[1][1] \in held
                /\ IF coming # {}
                   THEN /\ fOut[1][1] \in coming
                        /\ \A d \in coming : DayNumber(fOut[1][1]) <= DayNumber(d)
                   ELSE \A d \in held : DayNumber(d) <= DayNumber(fOut[1][1])

\* a later expiry listed before an earlier one: the earlier one is returned
C15_Witness ==
    /\ Applied("_pick_nearest_expiry")
    /\ fIn.dates = <<"2027-01-07", "2025-12-31", "2026-11-05">>
    /\ fOut[1] = <<"2026-11-05">>

-----------------------------------------------------------------------------
(* Interleaved runs: several run_planner coroutines on one event loop, each  *)
(* suspended at its awaits. A PlannerState is an object on the heap; a run   *)
(* holds a reference to the one it created.                                  *)

NumRuns == 2

RunIds == 1..NumRuns

\* state = PlannerState(): the id of a new object, which no other run holds
\* (the objects are numbered by the run that creates them)
AllocState_Shared(run) == 1

AllocState(run) == run

\* the code of a pipeline from the return of tools.call(tool) to its next
\* await, return or exception
AfterReturn(planner, tool, state, locals, account_context, res) ==
    CASE tool = "find_instrument" ->
            IF planner = "OPTIONS_BUYING" THEN OptionsAfterFind(state, locals, res)
            ELSE SwingAfterFind(state, locals, res)
      [] tool = "get_daily_ohlcv" ->
            IF planner = "OPTIONS_BUYING" THEN OptionsAfterDaily(state, locals, res)
            ELSE SwingAfterDaily(state, locals, account_context, res)
      [] tool = "get_intraday_ohlcv" -> OptionsAfterIntraday(state, locals, res)
      [] tool = "get_expiry_list" -> OptionsAfterExpiry(state, locals, res)
      [] tool = "get_option_chain" -> OptionsAfterChain(state, locals, res)
      [] tool = "get_quote" -> OptionsAfterQuote(state, locals, account_context, res)

PairQueries == {"TCS swing", "NIFTY options"}

PairAccount == Account(Fig("num", 50000), Fig("num", 1))

\* the responses a tool may give to an interleaved run
PairResponses(tool) ==
    CASE tool = "find_instrument" ->
            { FindResponse(FALSE, Some("not found"), "none", <<>>),
              FindResponse(TRUE, None, "top",
                           <<Instrument(Some(Int_("1333")), Some("NSE_EQ"), None)>>) }
      [] tool = "get_daily_ohlcv" ->
            { Response(FALSE, "ASK_USER", Some("I need: interval"), <<"interval">>, None),
              Response(TRUE, "", None, <<>>,
                       Some(DailySeries(MinDailyCloses, 80, 95, 100, 90, 1, ""))) }
      [] tool = "get_intraday_ohlcv" ->
            { Response(TRUE, "", None, <<>>,
                       Some(IntradaySeries(MinIntradayCandles - 1, Some(105), FALSE, 1))),
              Response(TRUE, "", None, <<>>,
                       Some(IntradaySeries(MinIntradayCandles, Some(105), FALSE, 1))) }
      [] tool = "get_expiry_list" ->
            { Response(TRUE, "", None, <<>>,
                       ExpiryPayload("list", "", <<"2026-11-26", "2026-11-05">>)) }
      [] tool = "get_option_chain" -> { Response(TRUE, "", None, <<>>, Some("chain")) }
      [] tool = "get_quote" -> { QuoteResponse(TRUE, <<[ltp |-> Some(25000)]>>) }

\* a coroutine before its first step: state is the reference it will hold
NewRun(query, account_context) ==
    [pc |-> "start", planner |-> "", query |-> query, account |-> account_context,
     state |-> 0, locals |-> NoLocals, inputs |-> <<>>, result |-> <<>>, exc |-> ""]

PairInit ==
    /\ qRuns \in [RunIds -> { NewRun(q, PairAccount) : q \in PairQueries }]
    /\ qHeap = [id \in RunIds |-> EmptyState]
    /\ GuardIdle
    /\ ToolsIdle
    /\ PlanIdle
    /\ FnIdle
    /\ DaemonIdle

\* the coroutine after a step that works on the object ref: the step's state
\* is what the object holds afterwards, and a result refers to the object
Advance(run, ref, step) ==
    CASE step.kind = "halt" ->
            [run EXCEPT !.pc = "done", !.state = ref,
                        !.result = <<[step.result EXCEPT !.state = ref]>>]
      [] step.kind = "call" ->
            [run EXCEPT !.pc = step.tool, !.state = ref, !.locals = step.locals]
      [] step.kind = "raise" ->
            [run EXCEPT !.pc = "raised", !.state = ref, !.exc = step.exc]

StepState(step) == IF step.kind = "halt" THEN step.result.state ELSE step.state

\* run_planner is entered: the intent is classified, the pipeline creates its
\* PlannerState and runs to its first await or return
PairStart(r) ==
    /\ qRuns[r].pc = "start"
    /\ LET step == run_planner(qRuns[r].query)
           ref == AllocState(r)
       IN /\ qRuns' = [qRuns EXCEPT ![r] =
                          Advance([@ EXCEPT !.planner = classify_intent(qRuns[r].query)],
                                  ref, step)]
          /\ qHeap' = [qHeap EXCEPT ![ref] = StepState(step)]
    /\ UNCHANGED <<guardVars, toolVars, planVars, fnVars, daemonVars>>

\* the awaited tools.call of run r returns and the run goes on to its next
\* await, return or exception, reading and writing the object it refers to
PairReturn(r) ==
    /\ qRuns[r].pc \notin {"start", "done", "raised"}
    /\ \E res \in PairResponses(qRuns[r].pc) :
          LET run == qRuns[r]
              step == AfterReturn(run.planner, run.pc, qHeap[run.state], run.locals,
                                  run.account, res)
          IN /\ qRuns' = [qRuns EXCEPT ![r] =
                             Advance([@ EXCEPT !.inputs = Append(@, res)], run.state, step)]
             /\ qHeap' = [qHeap EXCEPT ![run.state] = StepState(step)]
    /\ UNCHANGED <<guardVars, toolVars, planVars, fnVars, daemonVars>>

PairNext ==
    \E r \in RunIds :
        \/ PairStart(r)
        \/ PairReturn(r)

SpecPair == PairInit /\ [][PairNext]_vars

-----------------------------------------------------------------------------
(* Claims about interleaved runs, checked under SpecPair                     *)

RECURSIVE Resume(_, _, _, _)
\* a run alone, from a step on: each response is consumed by the await the
\* run is suspended at
Resume(planner, account_context, step, inputs) ==
    IF step.kind # "call" \/ inputs = <<>> THEN step
    ELSE Resume(planner, account_context,
                AfterReturn(planner, step.tool, step.state, step.locals, account_context,
                            Head(inputs)),
                Tail(inputs))

\* where a run alone stands after the given responses
RunAlone(query, account_context, inputs) ==
    Resume(classify_intent(query), account_context, run_planner(query), inputs)

\* C16: when two or more planner runs are interleaved at their awaits, each
\* run returns the terminal result and PlannerState it would return when run
\* alone with the same query, account context and tool responses; no run
\* reads or writes the PlannerState of another. Stated at every point of the
\* interleaving: a started run refers to a PlannerState no other started run
\* refers to, and that object and the run's position, result or exception
\* are those of the run alone after the responses it has consumed.
C16_RunsIndependent ==
    \A r \in DOMAIN qRuns :
        qRuns[r].pc # "start" =>
            LET run == qRuns[r]
                alone == RunAlone(run.query, run.account, run.inputs)
            IN /\ \A s \in DOMAIN qRuns \ {r} :
                      qRuns[s].pc # "start" => qRuns[s].state # run.state
               /\ qHeap[run.state] = StepState(alone)
               /\ run.pc = "done" =>
                      /\ alone.kind = "halt"
                      /\ [run.result[1] EXCEPT !.state = qHeap[@]] = alone.result
               /\ run.pc = "raised" => alone.kind = "raise" /\ run.exc = alone.exc
               /\ run.pc \notin {"done", "raised"} =>
                      alone.kind = "call" /\ run.pc = alone.tool

\* two finished runs of different pipelines, one of which consumed a response
\* after the other had returned its result
C16_Witness ==
    \E r, s \in DOMAIN qRuns :
        /\ r # s
        /\ qRuns[r].pc = "done"
        /\ qRuns[s].pc = "done"
        /\ qRuns[r].planner = "SWING_BUY"
        /\ qRuns[s].planner = "OPTIONS_BUYING"
        /\ qRuns[r].result[1].action = "DECISION"
        /\ qHeap[qRuns[s].state].selected_option # <<>>
        /\ qHeap[qRuns[r].state].selected_option = <<>>

-----------------------------------------------------------------------------
(* Claims about the stages of a planner run, checked under SpecPlan          *)

\* a swing run that has ended after a successful daily fetch
SwingAfterFetch ==
    /\ pPlanner = "SWING_BUY"
    /\ pc \in {"done", "raised"}
    /\ pDailyIn # NoSeries
    /\ pDailyIn.success

\* the candles of the daily response
DailyCandles == IF pDailyIn.data = <<>> THEN <<>> ELSE pDailyIn.data[1]

\* the closes that parse, oldest first
DailyCloses == ParsedField(DailyCandles, "close")

\* SMA20 > SMA50 and last close > SMA20 on at least 60 closes, compared as sums
ClearUptrend(closes) ==
    /\ 50 * SumOfLast(closes, 20) > 20 * SumOfLast(closes, 50)
    /\ 20 * closes[Len(closes)] > SumOfLast(closes, 20)

\* the volumes of the latest 20 candles, a missing volume counting as zero
LatestVolumes ==
    LET from == IF Len(DailyCandles) > 20 THEN Len(DailyCandles) - 19 ELSE 1
    IN { IF DailyCandles[i].volume = <<>> THEN 0 ELSE DailyCandles[i].volume[1] :
           i \in from..Len(DailyCandles) }

\* C18: in the swing pipeline, when the daily fetch succeeds and either fewer
\* than 60 closes are available, the trend is not an uptrend (SMA20 > SMA50
\* and last close > SMA20), or the summed volume of the latest 20 daily
\* candles is zero, the run returns NO_TRADE, whatever the account context.
\* (Volumes are never negative, so the sum is zero iff every volume is zero.)
C18_WeakDailyDataNoTrade ==
    SwingAfterFetch =>
        LET closes == DailyCloses IN
        (\/ Len(closes) < 60
         \/ ~ClearUptrend(closes)
         \/ LatestVolumes \subseteq {0}) =>
            PlanDone /\ Returned.action = "NO_TRADE"

\* a run with a usable account and traded volume, refused because the last
\* close lies below a rising SMA20
C18_Witness ==
    /\ SwingAfterFetch
    /\ PlanDone
    /\ Returned.action = "NO_TRADE"
    /\ Len(DailyCloses) >= 60
    /\ LET closes == DailyCloses
       IN /\ 50 * SumOfLast(closes, 20) > 20 * SumOfLast(closes, 50)
          /\ 20 * closes[Len(closes)] < SumOfLast(closes, 20)
    /\ 0 \notin LatestVolumes
    /\ risk_budget_from_account(pAccount).message = None

\* the lowest low of the most recent 20 daily candles
LowestRecentLow ==
    LET recent == LastN(CandlesOf(pDailyIn), 20)
        lows == { recent[i].low[1] : i \in { k \in 1..Len(recent) : recent[k].low # <<>> } }
    IN CHOOSE m \in lows : \A x \in lows : m <= x

\* floor(x / d) of a fraction x and a whole number d > 0
FloorDiv(x, d) == x.num \div (x.den * d)

\* C19: every DECISION of the swing-buy pipeline is computed as entry = last
\* close, stop = minimum low over the most recent 20 candles, target = entry +
\* 2 x (entry - stop) and quantity = floor(risk_budget / (entry - stop)); and
\* a run that reaches sizing with entry 100, stop 90 and a risk budget of 500
\* emits DECISION with target 120 and quantity 50.
C19_DecisionLevels ==
    /\ SwingDecided =>
          LET d == Returned.decision[1]
              entry == LastClose
              stop == LowestRecentLow
          IN /\ d.entry = entry
             /\ d.stop_loss = stop
             /\ d.target = entry + 2 * (entry - stop)
             /\ d.quantity = FloorDiv(Budget, entry - stop)
    /\ (/\ SwingAtRisk
        /\ risk_budget_from_account(pAccount).amount # <<>>
        /\ Budget.den # 0
        /\ Budget.num = 500 * Budget.den
        /\ LastClose = 100
        /\ { k \in DOMAIN DailyCandles : DailyCandles[k].low # <<>> } # {}
        /\ LowestRecentLow = 90) =>
          /\ SwingDecided
          /\ Returned.decision[1].target = 120
          /\ Returned.decision[1].quantity = 50

\* the find_instrument response of a run identifies no instrument: the call
\* failed, it holds no instrument, or its first instrument lacks security_id
\* or exchange_segment
Unresolved(inst_res) ==
    \/ ~inst_res.success
    \/ inst_res.shape \in {"none", "data_null"}
    \/ inst_res.instruments = <<>>
    \/ inst_res.instruments[1].security_id = <<>>
    \/ inst_res.instruments[1].exchange_segment = <<>>

\* C20: in both pipelines, if the instrument-resolution call fails, returns
\* no instrument, or returns a first instrument that lacks security_id or
\* lacks exchange_segment, the run ends with NO_TRADE and issues no further
\* remote call (find_instrument stays the only call of the run).
C20_UnresolvedInstrumentNoTrade ==
    (pFindIn # <<>> /\ Unresolved(pFindIn[1])) =>
        /\ PlanDone
        /\ Returned.action = "NO_TRADE"
        /\ Len(pCalls) = 1

-----------------------------------------------------------------------------
(* Claims about the calls of a planner run, checked under SpecPlan           *)

\* the tools of each pipeline in the order of its stages
OptionsToolOrder ==
    <<"find_instrument", "get_daily_ohlcv", "get_intraday_ohlcv", "get_expiry_list",
      "get_option_chain", "get_quote">>

SwingToolOrder == <<"find_instrument", "get_daily_ohlcv">>

ToolOrder == IF pPlanner = "OPTIONS_BUYING" THEN OptionsToolOrder ELSE SwingToolOrder

\* C21: in every run, the sequence of tool names a pipeline calls is a prefix
\* of its fixed list: each tool is called at most once, never retried after a
\* failure, never out of order, and no order-placing or order-modifying tool
\* is ever called.
C21_CallsArePrefix ==
    /\ Len(pCalls) <= Len(ToolOrder)
    /\ \A i \in 1..Len(pCalls) : pCalls[i].tool = ToolOrder[i]

\* an options run whose option-chain fetch failed and that ended there, five
\* calls made
C21_Witness ==
    /\ PlanDone
    /\ pPlanner = "OPTIONS_BUYING"
    /\ pHalt = "option_chain"
    /\ Returned.action = "ERROR"
    /\ Len(pCalls) = 5

\* the run ended with the result the claim gives for a failed fetch response
FailureSurfaced(res) ==
    /\ PlanDone
    /\ IF res.action \in {"ASK_USER", "ASK_USER_INVALID"}
       THEN /\ Returned.action = "ASK_USER"
            /\ res.error # <<>> => Returned.message = res.error[1]
       ELSE /\ Returned.action = "ERROR"
            /\ Returned.error = res.error

\* C22: for the daily-candle, intraday-candle and option-chain fetches of
\* either pipeline, a response with success=false and action ASK_USER or
\* ASK_USER_INVALID ends the run with action ASK_USER whose message is the
\* response's error text, any other success=false response ends the run with
\* action ERROR carrying the response's error, and in both cases no further
\* remote call is made (the failed fetch stays the last call of the run).
C22_FailedFetchSurfaced ==
    /\ (pDailyIn # NoSeries /\ ~pDailyIn.success) =>
          /\ FailureSurfaced(pDailyIn)
          /\ pCalls[Len(pCalls)].tool = "get_daily_ohlcv"
    /\ (/\ pLastIn # <<>>
        /\ pLastIn[1].tool \in {"get_intraday_ohlcv", "get_option_chain"}
        /\ ~pLastIn[1].res.success) =>
          /\ FailureSurfaced(pLastIn[1].res)
          /\ pCalls[Len(pCalls)].tool = pLastIn[1].tool

\* an options run whose option-chain fetch was blocked by the guard and that
\* returned the guard's text
C22_Witness ==
    /\ PlanDone
    /\ pLastIn # <<>>
    /\ pLastIn[1].tool = "get_option_chain"
    /\ ~pLastIn[1].res.success
    /\ pLastIn[1].res.action = "ASK_USER"
    /\ Returned.action = "ASK_USER"
    /\ Returned.message = "I need: interval"

\* the account context gives no risk budget: a figure is missing, textual,
\* not-a-number, zero or negative
InvalidAccount == Unusable(pAccount.capital) \/ Unusable(pAccount.max_risk_per_trade)

\* one of the halting conditions of the daily analysis holds: fewer than 60
\* closes, no uptrend, or no volume in the latest 20 candles
DailyFilterFails ==
    \/ Len(DailyCloses) < 60
    \/ ~ClearUptrend(DailyCloses)
    \/ LatestVolumes \subseteq {0}

\* some candle of the latest 20 carries both a high and a low
LevelsDerivable ==
    \E c \in { LastN(DailyCandles, 20)[k] : k \in 1..Len(LastN(DailyCandles, 20)) } :
        c.high # <<>> /\ c.low # <<>>

\* the action of the earliest stage whose halting condition holds, in the
\* order 60 closes, uptrend, volume, risk budget, key levels, stop below
\* entry, quantity
EarliestHalt ==
    IF DailyFilterFails THEN "NO_TRADE"
    ELSE IF InvalidAccount THEN "ASK_USER"
    ELSE IF ~LevelsDerivable THEN "NO_TRADE"
    ELSE IF DerivedStop >= LastClose THEN "NO_TRADE"
    ELSE IF SharesAffordable <= 0 THEN "NO_TRADE"
    ELSE "DECISION"

\* C23: in the swing-buy pipeline, when several halting conditions hold at
\* once the terminal result is the one of the earliest stage in the fixed
\* order: an invalid account context together with a failed trend or volume
\* filter yields NO_TRADE, and an invalid account context together with
\* stop >= entry yields ASK_USER. Stated on every swing run that consumed a
\* successful daily response: it returns the action of the earliest stage
\* whose condition holds.
C23_EarliestStageWins ==
    SwingAfterFetch => PlanDone /\ Returned.action = EarliestHalt

\* the option-chain fetch of an options run has succeeded
ChainFetched ==
    /\ pPlanner = "OPTIONS_BUYING"
    /\ pLastIn # <<>>
    /\ \/ pLastIn[1].tool = "get_option_chain" /\ pLastIn[1].res.success
       \/ pLastIn[1].tool = "get_quote"

\* no options run returns DECISION, and a run whose option-chain fetch
\* succeeded goes on to no exception and ends with the contract question
OptionsEndsAsking ==
    /\ (pPlanner = "OPTIONS_BUYING" /\ PlanDone) => Returned.action # "DECISION"
    /\ ChainFetched =>
          /\ pc # "raised"
          /\ PlanDone =>
                /\ Returned.action = "ASK_USER"
                /\ Returned.missing_fields = <<"option_security_id", "option_exchange_segment">>
                /\ pHalt = "selection"

\* the step that consumes the quote returns what it returns for every other
\* account context
QuoteStepIgnoresAccount ==
    (pc = "get_quote" /\ pc' = "done") =>
        \A account_context \in Accounts :
            OptionsAfterQuote(pState, pLocals, account_context, pLastIn'[1].res).result
                = pResult'[1]

\* C24: the options-buying pipeline never returns DECISION and its terminal
\* result does not depend on the account context: every run in which the
\* option-chain fetch succeeds ends with ASK_USER and missing_fields exactly
\* [option_security_id, option_exchange_segment], so the risk-budget halt and
\* the lot-size halt are never reached.
C24_OptionsAlwaysAsks == []OptionsEndsAsking /\ [][QuoteStepIgnoresAccount]_vars

\* the expiry-list response an options run has just consumed
ExpiryConsumed == pLastIn # <<>> /\ pLastIn[1].tool = "get_expiry_list"

\* the date _pick_nearest_expiry selects from a successful response, <<>> when
\* the call failed or no date is held
SelectedExpiry(res) ==
    IF ~res.success THEN <<>>
    ELSE LET picked == pick_nearest_expiry(res.data)
         IN IF picked = <<>> \/ picked = <<"">> THEN <<>> ELSE picked

\* C25: the options-buying pipeline calls get_option_chain only with the
\* expiry_date that _pick_nearest_expiry selected from the successful
\* get_expiry_list response, and records that same date in
\* state.option_chain; if the expiry-list call fails or yields no date the
\* run ends with ASK_USER and missing_fields [expiry_date] without calling
\* get_option_chain.
C25_ChainUsesPickedExpiry ==
    /\ ExpiryConsumed =>
          LET expiry == SelectedExpiry(pLastIn[1].res)
              last == pCalls[Len(pCalls)]
          IN IF expiry # <<>>
             THEN /\ pc = "get_option_chain"
                  /\ last.tool = "get_option_chain"
                  /\ last.args.expiry_date = Str(expiry[1])
             ELSE /\ PlanDone
                  /\ Returned.action = "ASK_USER"
                  /\ Returned.missing_fields = <<"expiry_date">>
                  /\ last.tool = "get_expiry_list"
    /\ (pPlanner = "OPTIONS_BUYING" /\ pState.option_chain # <<>>) =>
          /\ Len(pCalls) >= 5
          /\ pCalls[5].tool = "get_option_chain"
          /\ Str(pState.option_chain[1].expiry_date) = pCalls[5].args.expiry_date

\* a run whose expiry list held only dates before today: the latest one went
\* into the option-chain call and into state.option_chain
C25_Witness ==
    /\ pPlanner = "OPTIONS_BUYING"
    /\ pState.option_chain # <<>>
    /\ pState.option_chain[1].expiry_date = "2026-10-29"
    /\ pCalls[5].args.expiry_date = Str("2026-10-29")

\* an options run has just consumed a successful daily response
OptionsDailyConsumed ==
    pPlanner = "OPTIONS_BUYING" /\ pDailyIn # NoSeries /\ pDailyIn.success

\* an options run has just consumed a successful intraday response
OptionsIntradayConsumed ==
    /\ pLastIn # <<>>
    /\ pLastIn[1].tool = "get_intraday_ohlcv"
    /\ pLastIn[1].res.success

\* the run ended with NO_TRADE and the named tool is the last it called
GateClosed(tool) ==
    /\ PlanDone
    /\ Returned.action = "NO_TRADE"
    /\ pCalls[Len(pCalls)].tool = tool

\* C26: the options-buying pipeline calls get_intraday_ohlcv only after
\* classify_htf_bias on the fetched daily candles returned a direction other
\* than NO_TRADE, and calls get_expiry_list only after classify_ltf_structure
\* on the fetched intraday candles returned entry permission; when either
\* gate fails the run ends with NO_TRADE and no later tool is called.
C26_GatesBeforeFetches ==
    /\ OptionsDailyConsumed =>
          IF classify_htf_bias(CandlesOf(pDailyIn))[2] = "NO_TRADE"
          THEN GateClosed("get_daily_ohlcv")
          ELSE pc = "get_intraday_ohlcv" /\ pCalls[Len(pCalls)].tool = "get_intraday_ohlcv"
    /\ OptionsIntradayConsumed =>
          IF ~classify_ltf_structure(CandlesOf(pLastIn[1].res))[2]
          THEN GateClosed("get_intraday_ohlcv")
          ELSE pc = "get_expiry_list" /\ pCalls[Len(pCalls)].tool = "get_expiry_list"
    /\ (pPlanner = "OPTIONS_BUYING" /\ Len(pCalls) >= 3) =>
          pState.htf # <<>> /\ pState.htf[1].allowed_direction # "NO_TRADE"
    /\ (pPlanner = "OPTIONS_BUYING" /\ Len(pCalls) >= 4) =>
          pState.ltf # <<>> /\ pState.ltf[1].entry_permission

\* a run with a trending daily series whose intraday candles gave no entry
C26_Witness ==
    /\ OptionsIntradayConsumed
    /\ Len(CandlesOf(pLastIn[1].res)) >= MinIntradayCandles
    /\ GateClosed("get_intraday_ohlcv")
    /\ pState.htf[1].allowed_direction = "PE_ONLY"

\* the LTF structure confirms entry in the direction the HTF bias allows
DirectionsAgree(allowed_direction, ltf_structure) ==
    \/ allowed_direction = "CE_ONLY" /\ ltf_structure = "BULLISH"
    \/ allowed_direction = "PE_ONLY" /\ ltf_structure = "BEARISH"

\* C28: the options-buying pipeline proceeds past lower-timeframe
\* confirmation only when the LTF structure confirms entry in the direction
\* the HTF bias allows (BULLISH with CE_ONLY, BEARISH with PE_ONLY), so the
\* option type recorded in state.selected_option (CE for CE_ONLY, PE
\* otherwise) always agrees with the LTF structure; a run with HTF BULLISH
\* and LTF BEARISH halts with NO_TRADE.
C28_EntryInAllowedDirection ==
    /\ (pPlanner = "OPTIONS_BUYING" /\ Len(pCalls) >= 4) =>
          DirectionsAgree(pState.htf[1].allowed_direction, pState.ltf[1].ltf_structure)
    /\ (pPlanner = "OPTIONS_BUYING" /\ pState.selected_option # <<>>) =>
          (pState.selected_option[1].option_type = "CE"
              <=> pState.ltf[1].ltf_structure = "BULLISH")
    /\ (/\ OptionsIntradayConsumed
        /\ pState.htf[1].htf_bias = "BULLISH"
        /\ classify_ltf_structure(CandlesOf(pLastIn[1].res))[1] = "BEARISH") =>
          GateClosed("get_intraday_ohlcv")

MaxVersion == 3

\* the most stop() calls
MaxStops == 2

Subscription(exchange_segment, security_id, mode) ==
    [exchange_segment |-> exchange_segment, security_id |-> security_id, mode |-> mode]

\* the instruments a caller may subscribe to, each with the default mode
SubChoices == {Subscription("IDX_I", "13", "Quote"), Subscription("NSE_EQ", "1333", "Quote")}

SubKey(sub) == <<sub.exchange_segment, sub.security_id>>

map_exchange_segment(exchange_segment) ==
    CASE exchange_segment = "IDX_I" -> 0
      [] exchange_segment \in {"NSE_EQ", "NSE_FO"} -> 1
      [] exchange_segment \in {"BSE_EQ", "BSE_FO"} -> 2
      [] OTHER -> 1

map_mode(mode) == IF mode = "Full" THEN "Full" ELSE "Quote"

build_instruments(subs) ==
    { <<map_exchange_segment(s.exchange_segment), s.security_id, map_mode(s.mode)>> : s \in subs }

SupervisorAlive == dThread \notin {"none", "dead"}

DaemonInit ==
    /\ sSubs = {}
    /\ sVersion = 0
    /\ dEnabled \in BOOLEAN
    /\ dStop = FALSE
    /\ dThread = "none"
    /\ dV = <<>>
    /\ dSubs = <<>>
    /\ dFeed = <<>>
    /\ dActive = <<>>
    /\ dCaller = "idle"
    /\ dStops = 0
    /\ dLastError = ""
    /\ GuardIdle
    /\ ToolsIdle
    /\ PlanIdle
    /\ FnIdle
    /\ PairIdle

DaemonOthers == <<guardVars, toolVars, planVars, fnVars, pairVars>>

\* SubscriptionManager.add: nothing changes when the same Subscription is held
SubsAdd(sub) ==
    /\ dCaller = "idle"
    /\ sVersion < MaxVersion
    /\ sub \notin sSubs
    /\ sSubs' = {s \in sSubs : SubKey(s) # SubKey(sub)} \cup {sub}
    /\ sVersion' = sVersion + 1
    /\ UNCHANGED <<dEnabled, dStop, dThread, dV, dSubs, dFeed, dActive, dCaller, dStops,
                   dLastError, DaemonOthers>>

\* SubscriptionManager.remove: nothing changes when the key is not held
SubsRemove(sub) ==
    /\ dCaller = "idle"
    /\ sVersion < MaxVersion
    /\ \E s \in sSubs : SubKey(s) = SubKey(sub)
    /\ sSubs' = {s \in sSubs : SubKey(s) # SubKey(sub)}
    /\ sVersion' = sVersion + 1
    /\ UNCHANGED <<dEnabled, dStop, dThread, dV, dSubs, dFeed, dActive, dCaller, dStops,
                   dLastError, DaemonOthers>>

\* start(): returns at once while the supervisor thread is alive
DaemonStart ==
    /\ dCaller = "idle"
    /\ ~SupervisorAlive
    /\ dStop' = FALSE
    /\ dThread' = "entry"
    /\ UNCHANGED <<sSubs, sVersion, dEnabled, dV, dSubs, dFeed, dActive, dCaller, dStops,
                   dLastError, DaemonOthers>>

\* stop(), first statement: self._stop.set()
DaemonStopSet ==
    /\ dCaller = "idle"
    /\ dStops < MaxStops
    /\ dStop' = TRUE
    /\ dCaller' = "stopping"
    /\ dStops' = dStops + 1
    /\ UNCHANGED <<sSubs, sVersion, dEnabled, dThread, dV, dSubs, dFeed, dActive,
                   dLastError, DaemonOthers>>

\* stop(), second statement: self._stop_current_feed()
DaemonStopFeed ==
    /\ dCaller = "stopping"
    /\ dFeed' = <<>>
    /\ dCaller' = "idle"
    /\ UNCHANGED <<sSubs, sVersion, dEnabled, dStop, dThread, dV, dSubs, dActive, dStops,
                   dLastError, DaemonOthers>>

\* _run_supervisor, the check of _enabled
SupervisorEnter ==
    /\ dThread = "entry"
    /\ IF dEnabled
         THEN dThread' = "while" /\ UNCHANGED dLastError
         ELSE /\ dThread' = "dead"
              /\ dLastError' = "DHAN_ACCESS_TOKEN not set; market daemon disabled"
    /\ UNCHANGED <<sSubs, sVersion, dEnabled, dStop, dV, dSubs, dFeed, dActive, dCaller,
                   dStops, DaemonOthers>>

\* while not self._stop.is_set()
SupervisorWhile ==
    /\ dThread = "while"
    /\ dThread' = IF dStop THEN "dead" ELSE "version"
    /\ UNCHANGED <<sSubs, sVersion, dEnabled, dStop, dV, dSubs, dFeed, dActive, dCaller,
                   dStops, dLastError, DaemonOthers>>

\* v = self._subs.version
SupervisorVersion ==
    /\ dThread = "version"
    /\ dV' = <<sVersion>>
    /\ dThread' = "list"
    /\ UNCHANGED <<sSubs, sVersion, dEnabled, dStop, dSubs, dFeed, dActive, dCaller,
                   dStops, dLastError, DaemonOthers>>

\* subs = self._subs.list()
SupervisorList ==
    /\ dThread = "list"
    /\ dSubs' = <<sSubs>>
    /\ dThread' = "branch"
    /\ UNCHANGED <<sSubs, sVersion, dEnabled, dStop, dV, dFeed, dActive, dCaller,
                   dStops, dLastError, DaemonOthers>>

\* the two tests of an iteration: no subscriptions (the feed, when there is
\* one, is stopped and the active version forgotten), or a version other than
\* the active one (the rebuild begins)
SupervisorBranch ==
    /\ dThread = "branch"
    /\ IF dSubs[1] = {}
         THEN /\ dThread' = "sleep"
              /\ IF dFeed # <<>>
                   THEN dFeed' = <<>> /\ dActive' = <<>>
                   ELSE UNCHANGED <<dFeed, dActive>>
         ELSE /\ dThread' = IF dActive # dV THEN "rebuild_stop" ELSE "sleep"
              /\ UNCHANGED <<dFeed, dActive>>
    /\ UNCHANGED <<sSubs, sVersion, dEnabled, dStop, dV, dSubs, dCaller, dStops,
                   dLastError, DaemonOthers>>

\* rebuild: self._stop_current_feed()
SupervisorRebuildStop ==
    /\ dThread = "rebuild_stop"
    /\ dFeed' = <<>>
    /\ dThread' = "rebuild_start"
    /\ UNCHANGED <<sSubs, sVersion, dEnabled, dStop, dV, dSubs, dActive, dCaller, dStops,
                   dLastError, DaemonOthers>>

\* rebuild: self._start_feed(self._build_instruments(subs))
SupervisorRebuildStart ==
    /\ dThread = "rebuild_start"
    /\ dFeed' = <<build_instruments(dSubs[1])>>
    /\ dThread' = "rebuild_mark"
    /\ UNCHANGED <<sSubs, sVersion, dEnabled, dStop, dV, dSubs, dActive, dCaller, dStops,
                   dLastError, DaemonOthers>>

\* rebuild: self._active_version = v
SupervisorRebuildMark ==
    /\ dThread = "rebuild_mark"
    /\ dActive' = dV
    /\ dThread' = "sleep"
    /\ UNCHANGED <<sSubs, sVersion, dEnabled, dStop, dV, dSubs, dFeed, dCaller, dStops,
                   dLastError, DaemonOthers>>

\* time.sleep(0.25), after which the loop tests _stop again
SupervisorSleep ==
    /\ dThread = "sleep"
    /\ dThread' = "while"
    /\ dV' = <<>>
    /\ dSubs' = <<>>
    /\ UNCHANGED <<sSubs, sVersion, dEnabled, dStop, dFeed, dActive, dCaller, dStops,
                   dLastError, DaemonOthers>>

SupervisorStep ==
    \/ SupervisorEnter
    \/ SupervisorWhile
    \/ SupervisorVersion
    \/ SupervisorList
    \/ SupervisorBranch
    \/ SupervisorRebuildStop
    \/ SupervisorRebuildStart
    \/ SupervisorRebuildMark
    \/ SupervisorSleep

DaemonNext ==
    \/ \E sub \in SubChoices : SubsAdd(sub)
    \/ \E sub \in SubChoices : SubsRemove(sub)
    \/ DaemonStart
    \/ DaemonStopSet
    \/ DaemonStopFeed
    \/ SupervisorStep

SpecDaemon == DaemonInit /\ [][DaemonNext]_vars

\* a started thread keeps running: the supervisor takes its next statement,
\* and a caller inside stop() finishes it
SpecDaemonFair ==
    /\ SpecDaemon
    /\ WF_vars(SupervisorStep)
    /\ WF_vars(DaemonStopFeed)

\* the daemon is enabled, its supervisor runs and subscriptions are held
DaemonServing ==
    /\ dEnabled
    /\ SupervisorAlive
    /\ sSubs # {}

\* the feed serves exactly the subscriptions held
FeedCurrent ==
    /\ dFeed # <<>>
    /\ dFeed[1] = { <<map_exchange_segment(s.exchange_segment), s.security_id, s.mode>> :
                    s \in sSubs }

\* C30: once the daemon is enabled, its supervisor runs and the held
\* subscriptions are non-empty and no longer change (add(), remove() and
\* stop() are bounded, so every behaviour reaches that point when the
\* supervisor stays alive), the feed built from the held subscriptions runs
\* again and again, also after a stop() followed by a start()
C30_FeedFollowsSubscriptions == (<>[]DaemonServing) => ([]<>FeedCurrent)

=============================================================================
